---------------------------- MODULE Spec2Model ----------------------------
(***************************************************************************)
(* A model of the PCI utilities of this repository:                        *)
(*   - bus mapping mode of lspci.c (map_the_bus, do_map_bus, map_bridge,   *)
(*     map_bridges, do_map_bridges),                                       *)
(*   - tree mode of lspci.c (sort_them, grow_tree, insert_dev, show_tree), *)
(*   - the configuration space cache of the h1a_ee tool (config_fetch,     *)
(*     check_conf_range, get_conf_byte/word/long),                         *)
(*   - main of the h1a_ee tool (scan_devices, adna_d3_to_d0, eep_process,  *)
(*     adna_hotreset),                                                     *)
(*   - the EEPROM functions of the h1a_ee tool (eep_read, eep_write,       *)
(*     eep_init, EepromFileLoad, EepromFileSave).                          *)
(* The parts never run together; each has its own specification (SpecMap,  *)
(* SpecTree, SpecCache, SpecMain, SpecEep) over its own group of variables.*)
(***************************************************************************)
EXTENDS Integers, Sequences, FiniteSets, TLC

VARIABLES
  \* bus mapping mode
  bus_info,     \* struct bus_info bus_info[256]
  map_pc,       \* "probe" | "validate" | "done" | "died"
  probe,        \* loop variables of map_the_bus / do_map_bus
  stack,        \* call stack of do_map_bridges: frames [bus, min, max, b]
  vlog,         \* history: the calls of do_map_bridges and the claims it examined
  \* tree mode
  devs,         \* the devices of the registry, by index (a struct device each)
  first_dev,    \* head of the device list (0 is NULL)
  dnext,        \* struct device.next of every device (0 is NULL)
  bridges,      \* the struct bridge objects; bridges[1] is host_bridge
  buses,        \* the struct bus objects
  tree_pc,      \* "sorted" | "grown" | "shown"
  shown,        \* the devices show_tree_dev was called for, in order
  \* configuration space cache of one device
  dcache,       \* config_bufsize, present[] and config[] of the struct device
  cache_pc,     \* "run" | "dead" (die() was called)
  lastcall,     \* history: the last call, its result and the state before it
  regs,         \* the configuration registers of the device, as they are now
  \* the run of the h1a_ee tool (main of part_000)
  main_pc,      \* where main is: "start" | "scan" | "d3" | "select" | "eep" |
                \* "hotreset" | "exit_label" | "exited"; "idle" when it does not run
  seen_errors,  \* static int seen_errors
  exit_status,  \* the exit status of the process once main_pc = "exited"
  scan,         \* scan_devices: the next device p, the outcomes so far, the
                \* number of calls of scan_devices and of eep_process
  NumDevices,   \* NumDevices = count_upstream()
  d3,           \* adna_d3_to_d0: the loop index a and the local status
  hot,          \* history: the passes of eep_process and the hot resets
  \* EepromFileLoad / EepromFileSave of the h1a_ee tool (part_000)
  eep_pc,       \* "start" | "read" | "scan" | "program" | "done" | "crashed";
                \* "idle" when neither function runs
  g_pBuffer,    \* the bytes of the malloc'ed buffer (byte k is g_pBuffer[k+1])
  ld,           \* the options and locals of the function, and history flags
  hw,           \* the EEPROM controller: buffer register and the blocks
  trace         \* history: the register accesses of the last step

mapvars == <<bus_info, map_pc, probe, stack, vlog>>

treevars == <<devs, first_dev, dnext, bridges, buses, tree_pc, shown>>

cachevars == <<dcache, cache_pc, lastcall, regs>>

mainvars == <<main_pc, seen_errors, exit_status, scan, NumDevices, d3, hot>>

eepvars == <<eep_pc, g_pBuffer, ld, hw, trace>>

vars == <<mapvars, treevars, cachevars, mainvars, eepvars>>

(***************************************************************************)
(* Bounds of the model.                                                    *)
(***************************************************************************)
\* bus numbers are 0..NumBus-1 (the code has 256 of them)
NumBus == 3
\* device numbers probed on a bus are 0..NumDev-1 (the code probes 32)
NumDev == 1
\* functions probed of a multi-function device are 0..NumFunc-1 (the code: 8)
NumFunc == 2
\* at most MaxClaims bridges are found by one bus mapping run
MaxClaims == 2

Buses == 0 .. (NumBus - 1)

(***************************************************************************)
(* Bus mapping mode: the prober.                                           *)
(***************************************************************************)

\* b->bug is never written by map_bridge and xmalloc does not clear memory:
\* until do_map_bridges stores 1 or 2 the field holds no defined value.
Uninit == -1

\* a NULL bus_info.via
NoVia == <<>>

\* bzero(bus_info, sizeof(struct bus_info) * 256)
BusInfo0 ==
  [i \in Buses |-> [exists |-> FALSE, guestbook |-> FALSE,
                    bridges |-> <<>>, via |-> NoVia]]

\* a bridge whose range is reversed is kept with last = first
ClampLastNone(first, last) == last

ClampLast(first, last) == IF first > last THEN first ELSE last

\* map_bridge(bi, d, np, ns, nl): a new struct bus_bridge at the head of
\* bi->bridges.  ns and nl are the bytes read from the header; this, dev and
\* func are stored only to be printed and are left out.
map_bridge(bi, ns, nl) ==
  [bi EXCEPT !.bridges =
     <<[first |-> ns, last |-> ClampLast(ns, nl), bug |-> Uninit]>> \o @]

TotalClaims(info) ==
  LET RECURSIVE Sum(_)
      Sum(n) == IF n < 0 THEN 0 ELSE Len(info[n].bridges) + Sum(n - 1)
  IN Sum(NumBus - 1)

\* the loops of map_the_bus and do_map_bus, advanced past the function just
\* probed; limit is func_limit after this iteration
AdvanceProbe(p, limit) ==
  IF p.func + 1 < limit
    THEN [p EXCEPT !.func = p.func + 1, !.func_limit = limit]
  ELSE IF p.dev + 1 < NumDev
    THEN [p EXCEPT !.dev = p.dev + 1, !.func = 0, !.func_limit = 1]
  ELSE [p EXCEPT !.bus = p.bus + 1, !.dev = 0, !.func = 0, !.func_limit = 1]

PcAfterProbe(p) == IF p.bus >= NumBus THEN "validate" ELSE "probe"

\* func_limit = 8 when function 0 has the multi-function bit set
FuncLimit(p, multi) == IF p.func = 0 /\ multi THEN NumFunc ELSE p.func_limit

\* history: whether the function 0 probed last was present with the
\* multi-function bit (0x80) set in its header type
Multi0(p, multi) == IF p.func = 0 THEN multi ELSE p.multi0

\* vendor is 0 or 0xffff: nothing at this address
do_map_bus_absent ==
  /\ map_pc = "probe"
  /\ probe' = [AdvanceProbe(probe, probe.func_limit)
                 EXCEPT !.multi0 = Multi0(probe, FALSE)]
  /\ map_pc' = PcAfterProbe(probe')
  /\ UNCHANGED <<bus_info, stack, vlog, treevars, cachevars, mainvars, eepvars>>

\* a function is present but scan_device returns NULL (pci_filter_match)
do_map_bus_filtered ==
  /\ map_pc = "probe"
  /\ \E multi \in BOOLEAN :
       /\ probe' = [AdvanceProbe(probe, FuncLimit(probe, multi))
                      EXCEPT !.multi0 = Multi0(probe, multi)]
       /\ map_pc' = PcAfterProbe(probe')
  /\ bus_info' = [bus_info EXCEPT ![probe.bus].exists = TRUE]
  /\ UNCHANGED <<stack, vlog, treevars, cachevars, mainvars, eepvars>>

\* a function is present and scan_device cannot read its header: die(),
\* after func_limit was set from the header type byte
do_map_bus_die ==
  /\ map_pc = "probe"
  /\ map_pc' = "died"
  /\ \E multi \in BOOLEAN :
       probe' = [probe EXCEPT !.func_limit = FuncLimit(probe, multi),
                              !.multi0 = Multi0(probe, multi)]
  /\ bus_info' = [bus_info EXCEPT ![probe.bus].exists = TRUE]
  /\ UNCHANGED <<stack, vlog, treevars, cachevars, mainvars, eepvars>>

\* a function is present, its header type is neither bridge nor cardbus
do_map_bus_device ==
  /\ map_pc = "probe"
  /\ \E multi \in BOOLEAN :
       /\ probe' = [AdvanceProbe(probe, FuncLimit(probe, multi))
                      EXCEPT !.multi0 = Multi0(probe, multi)]
       /\ map_pc' = PcAfterProbe(probe')
  /\ bus_info' = [bus_info EXCEPT ![probe.bus].exists = TRUE]
  /\ UNCHANGED <<stack, vlog, treevars, cachevars, mainvars, eepvars>>

\* a function is present, its header type is bridge or cardbus: map_bridge
\* with the secondary and subordinate bytes of its header
do_map_bus_bridge ==
  /\ map_pc = "probe"
  /\ TotalClaims(bus_info) < MaxClaims
  /\ \E multi \in BOOLEAN :
       /\ probe' = [AdvanceProbe(probe, FuncLimit(probe, multi))
                      EXCEPT !.multi0 = Multi0(probe, multi)]
       /\ map_pc' = PcAfterProbe(probe')
  /\ \E ns \in Buses, nl \in Buses :
       bus_info' = [bus_info EXCEPT
                      ![probe.bus] = map_bridge([@ EXCEPT !.exists = TRUE], ns, nl)]
  /\ UNCHANGED <<stack, vlog, treevars, cachevars, mainvars, eepvars>>

(***************************************************************************)
(* Bus mapping mode: the validator.                                        *)
(***************************************************************************)

\* the three branches of the loop body of do_map_bridges: 1 overlap,
\* 2 crossing, 0 recurse
BugOfSwapped(seen, first, last, min, max) ==
  IF first < min \/ last > max THEN 2 ELSE IF seen THEN 1 ELSE 0

BugOfInverted(seen, first, last, min, max) ==
  IF ~seen THEN 1 ELSE IF first < min \/ last > max THEN 2 ELSE 0

BugOfNoGuest(seen, first, last, min, max) ==
  IF first < min \/ last > max THEN 2 ELSE 0

BugOf(seen, first, last, min, max) ==
  IF seen THEN 1 ELSE IF first < min \/ last > max THEN 2 ELSE 0

WalkEvent(bus, min, max) ==
  [ev |-> "walk", bus |-> bus, idx |-> 0, seen |-> FALSE,
   first |-> bus, last |-> bus, min |-> min, max |-> max, bug |-> 0]

ExamEvent(bus, idx, seen, c, min, max, bug) ==
  [ev |-> "exam", bus |-> bus, idx |-> idx, seen |-> seen,
   first |-> c.first, last |-> c.last, min |-> min, max |-> max, bug |-> bug]

\* entry of do_map_bridges(bus, min, max): bi->guestbook = 1, b = bi->bridges
EnterInfoNoMark(info, bus) == info

EnterInfo(info, bus) == [info EXCEPT ![bus].guestbook = TRUE]

Frame(bus, min, max) == [bus |-> bus, min |-> min, max |-> max, b |-> 1]

\* map_bridges: the next i with exists and not guestbook gets
\* do_map_bridges(i, 0, 255); buses below the loop index that exist are all
\* visited, so the least such bus is the one the loop reaches next
map_bridges_call ==
  /\ map_pc = "validate"
  /\ stack = <<>>
  /\ \E i \in Buses :
       /\ bus_info[i].exists /\ ~bus_info[i].guestbook
       /\ \A j \in Buses : j < i => ~(bus_info[j].exists /\ ~bus_info[j].guestbook)
       /\ bus_info' = EnterInfo(bus_info, i)
       /\ stack' = <<Frame(i, 0, NumBus - 1)>>
       /\ vlog' = Append(vlog, WalkEvent(i, 0, NumBus - 1))
  /\ UNCHANGED <<map_pc, probe, treevars, cachevars, mainvars, eepvars>>

\* the claims of the buses from i on, as <<bus, index>>, in the order the
\* second loop of map_bridges prints them
RECURSIVE ClaimKeys(_, _)
ClaimKeys(info, i) ==
  IF i >= NumBus THEN <<>>
  ELSE [k \in 1 .. Len(info[i].bridges) |-> <<i, k>>] \o ClaimKeys(info, i + 1)

\* switch (b->bug): 1 prints the overlap tag, 2 the crossing tag, every other
\* value nothing (0).  A field never written holds whatever xmalloc returned:
\* any is what the switch finds there.
ReportTag(bug, any) == IF bug = Uninit THEN any ELSE bug

TagEvent(c, bus, idx, tag) ==
  [ev |-> "tag", bus |-> bus, idx |-> idx, seen |-> FALSE,
   first |-> c.first, last |-> c.last, min |-> 0, max |-> 0, bug |-> tag]

\* map_bridges: the first loop has reached 256; the second loop prints every
\* bus and the tag of every claim
map_bridges_done ==
  /\ map_pc = "validate"
  /\ stack = <<>>
  /\ \A i \in Buses : ~(bus_info[i].exists /\ ~bus_info[i].guestbook)
  /\ map_pc' = "done"
  /\ LET keys == ClaimKeys(bus_info, 0)
     IN \E any \in [DOMAIN keys -> {0, 1, 2}] :
          vlog' = vlog \o
            [k \in DOMAIN keys |->
               LET c == bus_info[keys[k][1]].bridges[keys[k][2]]
               IN TagEvent(c, keys[k][1], keys[k][2], ReportTag(c.bug, any[k]))]
  /\ UNCHANGED <<bus_info, probe, stack, treevars, cachevars, mainvars, eepvars>>

\* do_map_bridges: one iteration of for(b=bi->bridges; b; b=b->next)
do_map_bridges_examine ==
  /\ map_pc = "validate"
  /\ stack # <<>>
  /\ LET f == stack[Len(stack)]
         bs == bus_info[f.bus].bridges
     IN /\ f.b <= Len(bs)
        /\ LET c == bs[f.b]
               seen == bus_info[c.first].guestbook
               bug == BugOf(seen, c.first, c.last, f.min, f.max)
               rest == SubSeq(stack, 1, Len(stack) - 1)
                         \o <<[f EXCEPT !.b = f.b + 1]>>
           IN /\ vlog' = Append(vlog,
                            ExamEvent(f.bus, f.b, seen, c, f.min, f.max, bug))
                         \o (IF bug = 0
                               THEN <<WalkEvent(c.first, c.first, c.last)>>
                               ELSE <<>>)
              /\ IF bug = 0
                   THEN /\ bus_info' =
                             EnterInfo([bus_info EXCEPT
                                          ![c.first].via = <<f.bus, f.b>>],
                                       c.first)
                        /\ stack' = Append(rest,
                                           Frame(c.first, c.first, c.last))
                   ELSE /\ bus_info' =
                             [bus_info EXCEPT ![f.bus].bridges[f.b].bug = bug]
                        /\ stack' = rest
  /\ UNCHANGED <<map_pc, probe, treevars, cachevars, mainvars, eepvars>>

\* do_map_bridges: b is NULL, return to the caller
do_map_bridges_return ==
  /\ map_pc = "validate"
  /\ stack # <<>>
  /\ LET f == stack[Len(stack)]
     IN f.b > Len(bus_info[f.bus].bridges)
  /\ stack' = SubSeq(stack, 1, Len(stack) - 1)
  /\ UNCHANGED <<bus_info, map_pc, probe, vlog, treevars, cachevars, mainvars, eepvars>>

(***************************************************************************)
(* Properties of the validator.                                            *)
(***************************************************************************)

\* the claims examined so far, and the calls of do_map_bridges so far
Exams == {vlog[k] : k \in {n \in DOMAIN vlog : vlog[n].ev = "exam"}}

Walks(bus) ==
  Cardinality({k \in DOMAIN vlog : vlog[k].ev = "walk" /\ vlog[k].bus = bus})

Escapes(e) == e.first < e.min \/ e.last > e.max

\* the examined claims of one bus that name bus f and lie within the window
\* the bus was walked with
SameTarget(bus, f) ==
  {e \in Exams : e.bus = bus /\ e.first = f /\ ~Escapes(e)}

\* C1 as claimed: of two or more claims of one bus that name the same bus f
\* within the window, exactly one is recursed through, every other one is
\* tagged overlap, and bus f is walked once.
C1_Original ==
  \A bus \in Buses, f \in Buses :
    Cardinality(SameTarget(bus, f)) >= 2 =>
      /\ Cardinality({e \in SameTarget(bus, f) : e.bug = 0}) = 1
      /\ \A e \in SameTarget(bus, f) : e.bug # 0 => e.bug = 1
      /\ Walks(f) = 1

\* C1 amended: of two or more claims of one bus that name the same bus f
\* within the window, the one examined first is recursed through exactly when
\* bus f had not been visited before it was examined (never when f is the bus
\* itself, an ancestor or a bus walked earlier); every other one is tagged
\* overlap and not recursed through; so at most one is recursed through, and
\* bus f is walked exactly once in the pass.  No bus is ever walked twice.
C1_OverlapOnce ==
  /\ \A bus \in Buses : Walks(bus) <= 1
  /\ \A bus \in Buses, f \in Buses :
       LET G == SameTarget(bus, f)
       IN Cardinality(G) >= 2 =>
            LET e1 == CHOOSE e \in G : \A o \in G : e.idx <= o.idx
            IN /\ (e1.bug = 0) <=> ~e1.seen
               /\ \A o \in G \ {e1} :
                    /\ o.bug = 1
                    /\ bus_info[bus].bridges[o.idx].bug = 1
                    /\ bus_info[f].via # <<bus, o.idx>>
               /\ e1.bug = 0 => bus_info[f].via = <<bus, e1.idx>>
               /\ Walks(f) = 1

\* two claims of one bus name the same bus, one was recursed through and the
\* other tagged overlap, and the pass is over
C1_Witness ==
  /\ map_pc = "done"
  /\ \E bus \in Buses, f \in Buses :
       /\ Cardinality(SameTarget(bus, f)) >= 2
       /\ \E e \in SameTarget(bus, f) : e.bug = 0
       /\ \E e \in SameTarget(bus, f) : e.bug = 1

\* C2 as claimed: every claim examined with first < min or last > max is
\* tagged crossing.
C2_Original == \A e \in Exams : Escapes(e) => e.bug = 2

\* C2 amended: a claim examined with first < min or last > max is never
\* recursed through; it is tagged crossing exactly when its first bus had not
\* been visited when it was examined, and overlap otherwise.
C2_Crossing ==
  \A e \in Exams :
    Escapes(e) =>
      /\ e.bug # 0
      /\ (e.bug = 2) <=> ~e.seen
      /\ (e.bug = 1) <=> e.seen
      /\ bus_info[e.bus].bridges[e.idx].bug = e.bug
      /\ bus_info[e.first].via # <<e.bus, e.idx>>

\* a bus entered through a bridge (a window narrower than all buses) holds a
\* claim that was tagged crossing
C2_Witness ==
  \E e \in Exams :
    /\ e.min = e.bus
    /\ bus_info[e.bus].via # NoVia
    /\ Escapes(e)
    /\ bus_info[e.bus].bridges[e.idx].bug = 2

\* the number of calls of do_map_bridges so far
WalkCount == Cardinality({k \in DOMAIN vlog : vlog[k].ev = "walk"})

\* C11: the validation pass terminates for every table of claims, cycles and
\* self-loops included: do_map_bridges is only ever called on a bus that was
\* not visited before, so there are at most as many calls as buses, the
\* recursion is never deeper than the number of buses, and a pass that has
\* started comes to its end.
C11_Terminates ==
  /\ [](/\ \A bus \in Buses : Walks(bus) <= 1
        /\ WalkCount <= NumBus
        /\ Len(stack) <= NumBus
        /\ \A i, j \in DOMAIN stack : i # j => stack[i].bus # stack[j].bus)
  /\ (map_pc = "validate" ~> map_pc = "done")

\* the pass is over and the claims formed a cycle: a bus claims a second bus
\* that claims the first
C11_Witness ==
  /\ map_pc = "done"
  /\ \E e1 \in Exams, e2 \in Exams :
       e1.bus # e2.bus /\ e1.first = e2.bus /\ e2.first = e1.bus

\* C12: in one validation pass a bus is marked visited at most once, every
\* existing bus exactly once by the end of the pass; the mark is set before
\* any claim of the bus is examined, and it is never cleared.
C12_VisitedOnce ==
  /\ [](/\ \A bus \in Buses :
             /\ Walks(bus) <= 1
             /\ bus_info[bus].guestbook <=> Walks(bus) = 1
             /\ (map_pc = "done" /\ bus_info[bus].exists) => Walks(bus) = 1
        /\ \A k \in DOMAIN vlog :
             vlog[k].ev = "exam" =>
               /\ bus_info[vlog[k].bus].guestbook
               /\ \E j \in 1 .. (k - 1) :
                    vlog[j].ev = "walk" /\ vlog[j].bus = vlog[k].bus)
  /\ [][\A bus \in Buses :
          bus_info[bus].guestbook => bus_info'[bus].guestbook]_vars

\* the pass is over, two existing buses were visited, one of them through a
\* bridge, and a later claim that names that bus was turned away
C12_Witness ==
  /\ map_pc = "done"
  /\ \E a \in Buses, b \in Buses :
       /\ a # b
       /\ bus_info[a].exists /\ bus_info[b].exists
       /\ bus_info[b].via # NoVia
       /\ \E e \in Exams : e.first = b /\ e.seen

\* C17: a hardware read failure on a probed function does not end the run:
\* the probing goes on to the validation pass.
C17_ProbeNonFatal == map_pc # "died"

\* C21: functions 1 and up of a device number are probed exactly when
\* function 0 is present with the multi-function bit set, and then every one
\* of them is probed; else function 0 is the only one probed.
C21_MultiFunction ==
  [][map_pc = "probe" =>
       LET m == IF probe.func = 0 THEN probe'.multi0 ELSE probe.multi0
           stays == /\ map_pc' = "probe"
                    /\ probe'.bus = probe.bus
                    /\ probe'.dev = probe.dev
                    /\ probe'.func = probe.func + 1
       IN /\ probe.func >= 1 => probe.multi0
          /\ stays => m
          /\ (m /\ probe.func < NumFunc - 1) => stays]_vars

\* the tags the report printed for claim idx of bus
Tags(bus, idx) ==
  {k \in DOMAIN vlog :
     vlog[k].ev = "tag" /\ vlog[k].bus = bus /\ vlog[k].idx = idx}

\* the examinations of claim idx of bus
ExamsOf(bus, idx) ==
  {k \in DOMAIN vlog :
     vlog[k].ev = "exam" /\ vlog[k].bus = bus /\ vlog[k].idx = idx}

\* the claims of the table, as <<bus, index>>
Claims ==
  LET keys == ClaimKeys(bus_info, 0) IN {keys[i] : i \in DOMAIN keys}

ClaimAt(k) == bus_info[k[1]].bridges[k[2]]

\* no two claims of the table name the same first bus
NoSharedFirst ==
  \A k1 \in Claims, k2 \in Claims :
    k1 # k2 => ClaimAt(k1).first # ClaimAt(k2).first

\* the buses reached from bus b in 1 to n steps from a bus to the first bus
\* of one of its claims
RECURSIVE ReachedFrom(_, _)
ReachedFrom(b, n) ==
  IF n = 0 THEN {}
  ELSE LET next == {ClaimAt(k).first : k \in {x \in Claims : x[1] = b}}
       IN next \cup UNION {ReachedFrom(c, n - 1) : c \in next}

\* no bus is reached from itself
NoCycle == \A b \in Buses : b \notin ReachedFrom(b, NumBus)

\* C23 as claimed: when no two claims name the same first bus and the claims
\* contain no cycle, the pass tags no claim overlap.
C23_Original ==
  (map_pc = "done" /\ NoSharedFirst /\ NoCycle) =>
    \A e \in Exams : e.bug # 1

\* C23 amended: when no two claims name the same first bus, the claims
\* contain no cycle, and no claim names as its first bus an existing bus
\* numbered below the bus on which the claim was found, the pass tags no
\* claim overlap.
C23_NoOverlap ==
  (/\ map_pc = "done"
   /\ NoSharedFirst
   /\ NoCycle
   /\ \A k \in Claims :
        ~(bus_info[ClaimAt(k).first].exists /\ ClaimAt(k).first < k[1])) =>
    /\ \A e \in Exams : e.bug # 1
    /\ \A k \in Claims : ClaimAt(k).bug # 1

\* the pass is over for a table of two claims that forms a chain: a claim of
\* one bus leads to an existing bus that holds the other claim
C23_Witness ==
  /\ map_pc = "done"
  /\ NoSharedFirst
  /\ NoCycle
  /\ \A k \in Claims :
       ~(bus_info[ClaimAt(k).first].exists /\ ClaimAt(k).first < k[1])
  /\ \E k1 \in Claims, k2 \in Claims :
       /\ k1 # k2
       /\ ClaimAt(k1).first = k2[1]
       /\ bus_info[k2[1]].via = k1

\* C24: after validation a bus has an entry bridge exactly when the
\* validator recursed into it through a claim; the first bus of that claim is
\* the bus, the claim is reported with neither the overlap nor the crossing
\* tag, and the entry bridge of a bus is assigned at most once.
C24_EntryBridge ==
  map_pc = "done" =>
    \A bus \in Buses :
      LET into == {k \in DOMAIN vlog :
                     vlog[k].ev = "exam" /\ vlog[k].bug = 0
                     /\ vlog[k].first = bus}
      IN /\ bus_info[bus].via # NoVia <=> into # {}
         /\ Cardinality(into) <= 1
         /\ \A k \in into :
              /\ bus_info[bus].via = <<vlog[k].bus, vlog[k].idx>>
              /\ ClaimAt(bus_info[bus].via).first = bus
              /\ \A t \in Tags(vlog[k].bus, vlog[k].idx) : vlog[t].bug = 0

\* C25: every claim the validator recurses through lies inside the window
\* its bus was walked with, with first <= last; the window of a walk is all
\* buses for a start bus and else the range of the claim the bus was entered
\* through, so the ranges along a chain of entry bridges are nested.
C25_NestedRanges ==
  /\ \A e \in Exams :
       e.bug = 0 => (e.min <= e.first /\ e.first <= e.last /\ e.last <= e.max)
  /\ \A k \in DOMAIN vlog :
       vlog[k].ev = "walk" =>
         LET w == vlog[k]
             via == bus_info[w.bus].via
         IN IF via = NoVia
              THEN w.min = 0 /\ w.max = NumBus - 1
              ELSE /\ w.min = ClaimAt(via).first
                   /\ w.max = ClaimAt(via).last
                   /\ w.min = w.bus
                   /\ w.min <= w.max
                   /\ \E j \in 1 .. (k - 1) :
                        /\ vlog[j].ev = "exam" /\ vlog[j].bug = 0
                        /\ <<vlog[j].bus, vlog[j].idx>> = via
                        /\ vlog[j].min <= w.min /\ w.max <= vlog[j].max

\* the pass went through a chain of two entry bridges, the second on the
\* bus the first leads to, and the inner range is narrower than the outer
C25_Witness ==
  /\ map_pc = "done"
  /\ \E e1 \in Exams, e2 \in Exams :
       /\ e1.bug = 0 /\ e2.bug = 0
       /\ e2.bus = e1.first
       /\ e1.first < e1.last
       /\ e2.last - e2.first < e1.last - e1.first

\* C19: after validation every claim of every existing bus was examined
\* exactly once and is reported with exactly one tag: none exactly when the
\* validator recursed through it, overlap exactly when its first bus was
\* already visited when it was examined, crossing exactly when it was not
\* and the claim escapes the window.
C19_OneTagPerClaim ==
  map_pc = "done" =>
    \A bus \in Buses :
      \A idx \in DOMAIN bus_info[bus].bridges :
        /\ bus_info[bus].exists
        /\ Cardinality(ExamsOf(bus, idx)) = 1
        /\ Cardinality(Tags(bus, idx)) = 1
        /\ \A k \in ExamsOf(bus, idx), t \in Tags(bus, idx) :
             LET e == vlog[k]
                 tag == vlog[t].bug
                 recursed == bus_info[e.first].via = <<bus, idx>>
             IN /\ tag \in {0, 1, 2}
                /\ (tag = 0) <=> recursed
                /\ (tag = 1) <=> e.seen
                /\ (tag = 2) <=> (~e.seen /\ Escapes(e))


(***************************************************************************)
(* Tree mode: the registry.                                                *)
(***************************************************************************)

\* at most MaxDevs devices are in the registry
MaxDevs == 2

\* PCI domains of the registry
Domains == {0, 1}

\* unsigned int arithmetic.  Bus numbers are bytes and the only larger value
\* is ~0, so every difference the code forms is either below 256 or wraps to
\* within 255 of the modulus; the order of such values is the same for every
\* modulus above 2 * 255, and 2^16 stands in for 2^32.
UIntMod == 2 ^ 16

UIntMax == UIntMod - 1

USub(a, b) == (a - b) % UIntMod

Addresses ==
  [domain : Domains, bus : Buses, dev : 0 .. (NumDev - 1),
   func : 0 .. (NumFunc - 1)]

\* what grow_tree reads of a device: the class word, the header type and the
\* three bus number bytes of the header (PCI_PRIMARY_BUS, PCI_SECONDARY_BUS,
\* PCI_SUBORDINATE_BUS and their PCI_CB_ namesakes)
Headers ==
  [class : {"bridge_pci", "other"}, ht : {"normal", "bridge", "cardbus"},
   primary : Buses, secondary : Buses, subordinate : Buses]

\* class == PCI_CLASS_BRIDGE_PCI && (ht == BRIDGE || ht == CARDBUS)
IsBridgeDev(d) == d.class = "bridge_pci" /\ d.ht \in {"bridge", "cardbus"}

\* a device of the registry: its address, class and header type, and what
\* get_conf_byte returns for PCI_PRIMARY_BUS, PCI_SECONDARY_BUS and
\* PCI_SUBORDINATE_BUS (primary, secondary, subordinate) and for
\* PCI_CB_PRIMARY_BUS, PCI_CB_CARD_BUS and PCI_CB_SUBORDINATE_BUS
\* (cb_primary, cb_card_bus, cb_subordinate).  The two sets of names are the
\* same three bytes of config[], so both return the bus numbers of h; were
\* they bytes of their own, only the set grow_tree reads would hold them
DeviceApart(a, h) ==
  LET cb == h.ht = "bridge"
  IN [domain |-> a.domain, bus |-> a.bus, dev |-> a.dev, func |-> a.func,
      class |-> h.class, ht |-> h.ht,
      primary |-> IF cb THEN 0 ELSE h.primary,
      secondary |-> IF cb THEN 0 ELSE h.secondary,
      subordinate |-> IF cb THEN 0 ELSE h.subordinate,
      cb_primary |-> IF cb THEN h.primary ELSE 0,
      cb_card_bus |-> IF cb THEN h.secondary ELSE 0,
      cb_subordinate |-> IF cb THEN h.subordinate ELSE 0]

Device(a, h) ==
  [domain |-> a.domain, bus |-> a.bus, dev |-> a.dev, func |-> a.func,
   class |-> h.class, ht |-> h.ht,
   primary |-> h.primary, secondary |-> h.secondary,
   subordinate |-> h.subordinate,
   cb_primary |-> h.primary, cb_card_bus |-> h.secondary,
   cb_subordinate |-> h.subordinate]

\* the bus number bytes are drawn freely only where grow_tree reads them
DeviceInputs ==
  {Device(a, h) :
     a \in Addresses,
     h \in {x \in Headers :
              IsBridgeDev(x) \/
              (x.primary = 0 /\ x.secondary = 0 /\ x.subordinate = 0)}}

\* compare_them: -1, 0 or 1 by (domain, bus, dev, func)
compare_them(a, b) ==
  IF a.domain < b.domain THEN -1
  ELSE IF a.domain > b.domain THEN 1
  ELSE IF a.bus < b.bus THEN -1
  ELSE IF a.bus > b.bus THEN 1
  ELSE IF a.dev < b.dev THEN -1
  ELSE IF a.dev > b.dev THEN 1
  ELSE IF a.func < b.func THEN -1
  ELSE IF a.func > b.func THEN 1
  ELSE 0

\* the device list sort_them leaves: ascending, and libpci lists every
\* address once
SortedRegistries ==
  UNION {{r \in [1 .. n -> DeviceInputs] :
            \A i \in 1 .. (n - 1) : compare_them(r[i], r[i + 1]) < 0} :
         n \in 0 .. MaxDevs}

(***************************************************************************)
(* Tree mode: grow_tree.                                                   *)
(***************************************************************************)

HostId == 1

\* static struct bridge host_bridge = { NULL, NULL, NULL, NULL, 0, ~0, 0, ~0, NULL }
host_bridge ==
  [chain |-> 0, next |-> 0, child |-> 0, first_bus |-> 0, domain |-> 0,
   primary |-> UIntMax, secondary |-> 0, subordinate |-> UIntMax, br_dev |-> 0]

\* the bus numbers grow_tree reads from the header of device x:
\* if (ht == PCI_HEADER_TYPE_BRIDGE) the PCI_CB_ bytes, else the PCI_ bytes
BusRegs(x) ==
  IF x.ht = "bridge"
    THEN [primary |-> x.cb_primary, secondary |-> x.cb_card_bus,
          subordinate |-> x.cb_subordinate]
    ELSE [primary |-> x.primary, secondary |-> x.secondary,
          subordinate |-> x.subordinate]

\* the struct bridge grow_tree allocates for device number d
NewBridge(dv, d) ==
  [chain |-> 0, next |-> 0, child |-> 0, first_bus |-> 0,
   domain |-> dv[d].domain, primary |-> BusRegs(dv[d]).primary,
   secondary |-> BusRegs(dv[d]).secondary,
   subordinate |-> BusRegs(dv[d]).subordinate,
   br_dev |-> d]

\* grow_tree, "Build list of bridges": the devices from d on, last names the
\* bridge whose chain field last_br points to
RECURSIVE BuildChain(_, _, _, _, _)
BuildChain(dv, nx, brs, d, last) ==
  IF d = 0 THEN [brs EXCEPT ![last].chain = 0]
  ELSE IF IsBridgeDev(dv[d])
    THEN BuildChain(dv, nx,
                    Append([brs EXCEPT ![last].chain = Len(brs) + 1],
                           NewBridge(dv, d)),
                    nx[d], Len(brs) + 1)
  ELSE BuildChain(dv, nx, brs, nx[d], last)

\* the bridges from b on along chain
RECURSIVE ChainFrom(_, _)
ChainFrom(brs, b) ==
  IF b = 0 THEN <<>> ELSE <<b>> \o ChainFrom(brs, brs[b].chain)

\* may c replace best as the parent of b
BetterParentSelf(brs, b, c, best) ==
  /\ (c = HostId \/ brs[b].domain = brs[c].domain)
  /\ brs[b].primary >= brs[c].secondary
  /\ brs[b].primary <= brs[c].subordinate
  /\ (best = 0 \/ USub(brs[best].subordinate, brs[best].primary)
                    > USub(brs[c].subordinate, brs[c].primary))

BetterParent(brs, b, c, best) ==
  /\ c # b
  /\ (c = HostId \/ brs[b].domain = brs[c].domain)
  /\ brs[b].primary >= brs[c].secondary
  /\ brs[b].primary <= brs[c].subordinate
  /\ (best = 0 \/ USub(brs[best].subordinate, brs[best].primary)
                    > USub(brs[c].subordinate, brs[c].primary))

\* the inner loop of "Create a bridge tree": best after the candidates cs
RECURSIVE BestParent(_, _, _, _)
BestParent(brs, b, cs, best) ==
  IF cs = <<>> THEN best
  ELSE BestParent(brs, b, Tail(cs),
                  IF BetterParent(brs, b, Head(cs), best) THEN Head(cs) ELSE best)

\* the outer loop of "Create a bridge tree" over the bridges bs
RECURSIVE LinkParents(_, _, _)
LinkParents(brs, bs, all) ==
  IF bs = <<>> THEN brs
  ELSE LET b == Head(bs)
           best == BestParent(brs, b, all, 0)
       IN LinkParents(IF best = 0 THEN brs
                      ELSE [brs EXCEPT ![b].next = brs[best].child,
                                       ![best].child = b],
                      Tail(bs), all)

\* find_bus(b, domain, n): the bus found from bus u on, 0 if none
RECURSIVE FindBusFrom(_, _, _, _)
FindBusFrom(bus, u, domain, n) ==
  IF u = 0 THEN 0
  ELSE IF bus[u].domain = domain /\ bus[u].number = n THEN u
  ELSE FindBusFrom(bus, bus[u].sibling, domain, n)

find_bus(st, b, domain, n) == FindBusFrom(st.bus, st.brs[b].first_bus, domain, n)

\* new_bus(b, domain, n): the new bus is Len(st.bus) + 1
new_bus(st, b, domain, n) ==
  [st EXCEPT !.bus = Append(@, [domain |-> domain, number |-> n,
                                sibling |-> st.brs[b].first_bus,
                                first_dev |-> 0, last_dev |-> 0]),
             !.brs[b].first_bus = Len(st.bus) + 1]

\* "Insert secondary bus for each bridge"
RECURSIVE SecondaryBuses(_, _)
SecondaryBuses(st, bs) ==
  IF bs = <<>> THEN st
  ELSE LET b == Head(bs)
       IN SecondaryBuses(
            IF find_bus(st, b, st.brs[b].domain, st.brs[b].secondary) = 0
              THEN new_bus(st, b, st.brs[b].domain, st.brs[b].secondary)
              ELSE st,
            Tail(bs))

\* the first child of b from c on that forwards (domain, n), 0 if none
RECURSIVE ChildFor(_, _, _, _)
ChildFor(brs, c, domain, n) ==
  IF c = 0 THEN 0
  ELSE IF brs[c].domain = domain /\ brs[c].secondary <= n
          /\ n <= brs[c].subordinate
    THEN c
  ELSE ChildFor(brs, brs[c].next, domain, n)

\* *bus->last_dev = d; bus->last_dev = &d->next; d->next = NULL
\* (last_dev = 0 stands for &bus->first_dev)
LinkDevAtHead(st, u, d) ==
  [st EXCEPT !.nx[d] = st.bus[u].first_dev,
             !.bus[u].first_dev = d,
             !.bus[u].last_dev = IF st.bus[u].last_dev = 0 THEN d ELSE @]

LinkDev(st, u, d) ==
  LET linked == IF st.bus[u].last_dev = 0
                  THEN [st EXCEPT !.bus[u].first_dev = d]
                  ELSE [st EXCEPT !.nx[st.bus[u].last_dev] = d]
  IN [linked EXCEPT !.bus[u].last_dev = d, !.nx[d] = 0]

\* insert_dev(d, b)
RECURSIVE insert_dev(_, _, _, _)
insert_dev(dv, st, d, b) ==
  LET u == find_bus(st, b, dv[d].domain, dv[d].bus)
  IN IF u # 0 THEN LinkDev(st, u, d)
     ELSE LET c == ChildFor(st.brs, st.brs[b].child, dv[d].domain, dv[d].bus)
          IN IF c # 0 THEN insert_dev(dv, st, d, c)
             ELSE LinkDev(new_bus(st, b, dv[d].domain, dv[d].bus),
                          Len(st.bus) + 1, d)

\* "Create bus structs and link devices": d2 = d->next is read before
\* insert_dev(d, &host_bridge) rewrites it
RECURSIVE InsertAll(_, _, _)
InsertAll(dv, st, d) ==
  IF d = 0 THEN st
  ELSE LET d2 == st.nx[d]
       IN InsertAll(dv, insert_dev(dv, st, d, HostId), d2)

\* grow_tree() as a whole, from the device list (first, nx) and the bridges
\* brs (host_bridge alone before the first call)
GrowTree(dv, first, nx, brs, bus) ==
  LET chained == BuildChain(dv, nx, brs, first, HostId)
      all == ChainFrom(chained, HostId)
      linked == LinkParents(chained, all, all)
      withbus == SecondaryBuses([brs |-> linked, bus |-> bus, nx |-> nx], all)
  IN InsertAll(dv, withbus, first)

grow_tree ==
  /\ tree_pc = "sorted"
  /\ LET st == GrowTree(devs, first_dev, dnext, bridges, buses)
     IN /\ bridges' = st.brs
        /\ buses' = st.bus
        /\ dnext' = st.nx
  /\ tree_pc' = "grown"
  /\ UNCHANGED <<devs, first_dev, shown, mapvars, cachevars, mainvars, eepvars>>

\* "Create bus structs and link devices" when grow_tree is called again: the
\* device list is the one the first call left behind, and the loop may come
\* back to a device with everything as it was before, after which it repeats
\* for ever (hung); seen holds the loop states passed
RECURSIVE InsertAllAgain(_, _, _, _)
InsertAllAgain(dv, st, d, seen) ==
  IF d = 0 THEN [st |-> st, hung |-> FALSE]
  ELSE IF <<d, st>> \in seen THEN [st |-> st, hung |-> TRUE]
  ELSE InsertAllAgain(dv, insert_dev(dv, st, d, HostId), st.nx[d],
                      seen \cup {<<d, st>>})

\* a second call of grow_tree(): host_bridge is static and keeps child and
\* first_bus of the first call, the bridges and buses of the first call stay
\* allocated, and the device list is linked as insert_dev left it
grow_tree_again ==
  /\ tree_pc = "grown"
  /\ LET chained == BuildChain(devs, dnext, bridges, first_dev, HostId)
         all == ChainFrom(chained, HostId)
         linked == LinkParents(chained, all, all)
         withbus == SecondaryBuses([brs |-> linked, bus |-> buses,
                                    nx |-> dnext], all)
         r == InsertAllAgain(devs, withbus, first_dev, {})
     IN /\ bridges' = r.st.brs
        /\ buses' = r.st.bus
        /\ dnext' = r.st.nx
        /\ tree_pc' = IF r.hung THEN "hung" ELSE "regrown"
  /\ UNCHANGED <<devs, first_dev, shown, mapvars, cachevars, mainvars, eepvars>>

(***************************************************************************)
(* Tree mode: show_tree_bridge, show_tree_bus, show_tree_dev.              *)
(***************************************************************************)

\* the bridge show_tree_dev finds for device d: the first along chain from b
RECURSIVE BridgeOfDev(_, _, _)
BridgeOfDev(brs, b, d) ==
  IF b = 0 THEN 0
  ELSE IF brs[b].br_dev = d THEN b
  ELSE BridgeOfDev(brs, brs[b].chain, d)

\* the devices show_tree_dev is called for, in order, when the walk is at
\* bridge b (kind "bridge", from bus u on), or at bus u (kind "bus", from
\* device d on)
RECURSIVE ShowWalk(_, _, _, _, _, _)
ShowWalk(brs, bus, nx, kind, u, d) ==
  IF kind = "bridge"
    THEN IF u = 0 THEN <<>>
         ELSE ShowWalk(brs, bus, nx, "bus", u, bus[u].first_dev)
                \o ShowWalk(brs, bus, nx, "bridge", bus[u].sibling, 0)
  ELSE IF d = 0 THEN <<>>
  ELSE LET b == BridgeOfDev(brs, HostId, d)
       IN <<d>>
            \o (IF b = 0 THEN <<>>
                ELSE ShowWalk(brs, bus, nx, "bridge", brs[b].first_bus, 0))
            \o ShowWalk(brs, bus, nx, "bus", u, nx[d])

\* show_forest after grow_tree: show_tree_bridge(&host_bridge, line, line)
show_tree ==
  /\ tree_pc = "grown"
  /\ shown' = ShowWalk(bridges, buses, dnext, "bridge",
                       bridges[HostId].first_bus, 0)
  /\ tree_pc' = "shown"
  /\ UNCHANGED <<devs, first_dev, dnext, bridges, buses, mapvars, cachevars, mainvars, eepvars>>



(***************************************************************************)
(* The configuration space cache (config_fetch, get_conf_byte/word/long).  *)
(***************************************************************************)

\* config_bufsize after scan_device (the code: 256)
InitBufSize == 2
\* offsets and ends of the ranges asked for are at most MaxEnd (the code: 4096)
MaxEnd == 6

\* the content of a byte of config[] that nothing has written: xmalloc and
\* xrealloc do not clear memory
Garbage == -1

\* the bytes the device holds in its configuration space when it is scanned
Regs0 == [p \in 0 .. (MaxEnd - 1) |-> (37 * p + 11) % 256]

\* the offsets of the registers the device changes by itself (status bits)
Volatile == {InitBufSize + 1}

\* d->present[p] for p inside the buffer
Present(d, p) == p < d.bufsize /\ d.present[p]

\* scan_device: 256 bytes read and marked present
Scanned ==
  [bufsize |-> InitBufSize,
   present |-> [p \in 0 .. (InitBufSize - 1) |-> TRUE],
   config |-> [p \in 0 .. (InitBufSize - 1) |-> Regs0[p]]]

\* while (pos < d->config_bufsize && len && d->present[pos]) pos++, len--;
\* the result is <<pos, len>>
TrimLeadNone(d, pos, len) == <<pos, len>>

RECURSIVE TrimLead(_, _, _)
TrimLead(d, pos, len) ==
  IF pos < d.bufsize /\ len # 0 /\ d.present[pos]
    THEN TrimLead(d, pos + 1, len - 1)
    ELSE <<pos, len>>

\* while (pos+len <= d->config_bufsize && len && d->present[pos+len-1]) len--;
RECURSIVE TrimTail(_, _, _)
TrimTail(d, pos, len) ==
  IF pos + len <= d.bufsize /\ len # 0 /\ d.present[pos + len - 1]
    THEN TrimTail(d, pos, len - 1)
    ELSE len

\* while (end > d->config_bufsize) d->config_bufsize *= 2;
RECURSIVE GrowSize(_, _)
GrowSize(size, end) == IF end > size THEN GrowSize(size * 2, end) ELSE size

\* xrealloc of config and present to the new size and
\* memset(d->present + orig_size, 0, d->config_bufsize - orig_size)
ReallocCleared(d, size) ==
  [bufsize |-> size,
   present |-> [p \in 0 .. (size - 1) |-> FALSE],
   config |-> [p \in 0 .. (size - 1) |->
                 IF p < d.bufsize THEN d.config[p] ELSE Garbage]]

Realloc(d, size) ==
  [bufsize |-> size,
   present |-> [p \in 0 .. (size - 1) |->
                  IF p < d.bufsize THEN d.present[p] ELSE FALSE],
   config |-> [p \in 0 .. (size - 1) |->
                 IF p < d.bufsize THEN d.config[p] ELSE Garbage]]

\* result = pci_read_block(d->dev, pos, d->config + pos, len);
\* if (result) memset(d->present + pos, 1, len);
\* hwr are the registers of the device.  ok tells whether the hardware read
\* succeeds; a read that fails has stored the first got bytes of the range
\* in config[] before it failed
Stored(len, ok) == IF ok \/ len = 0 THEN {0} ELSE 0 .. (len - 1)

ReadBlockMarkAlways(d, pos, len, ok, got, hwr) ==
  [d EXCEPT !.present = [p \in DOMAIN d.present |->
                           IF pos <= p /\ p < pos + len THEN TRUE ELSE @[p]]]

ReadBlock(d, pos, len, ok, got, hwr) ==
  LET n == IF ok THEN len ELSE got
  IN [d EXCEPT !.config = [p \in DOMAIN d.config |->
                             IF pos <= p /\ p < pos + n THEN hwr[p] ELSE @[p]],
               !.present = [p \in DOMAIN d.present |->
                              IF ok /\ pos <= p /\ p < pos + len
                                THEN TRUE ELSE @[p]]]

\* config_fetch(d, pos, len): the device after the call, the value returned,
\* and the range asked of pci_read_block if it was called
config_fetch(d, pos, len, ok, got, hwr) ==
  LET end == pos + len
      lead == TrimLead(d, pos, len)
      pos1 == lead[1]
      len1 == TrimTail(d, pos1, lead[2])
  IN IF len1 = 0
       THEN [d |-> d, ret |-> 1, issued |-> FALSE, rpos |-> 0, rlen |-> 0]
       ELSE LET grown == IF end > d.bufsize
                           THEN Realloc(d, GrowSize(d.bufsize, end))
                           ELSE d
            IN [d |-> ReadBlock(grown, pos1, len1, ok, got, hwr),
                ret |-> IF ok THEN 1 ELSE 0,
                issued |-> TRUE, rpos |-> pos1, rlen |-> len1]

\* a call of config_fetch with any range and any outcome of the hardware read
config_fetch_call ==
  /\ cache_pc = "run"
  /\ \E pos \in 0 .. MaxEnd, ok \in BOOLEAN :
       \E len \in 0 .. (MaxEnd - pos) :
         \E got \in Stored(config_fetch(dcache, pos, len, ok, 0, regs).rlen, ok) :
         LET r == config_fetch(dcache, pos, len, ok, got, regs)
         IN /\ dcache' = r.d
            /\ lastcall' = [op |-> "fetch", pos |-> pos, len |-> len,
                            ret |-> r.ret, issued |-> r.issued, rpos |-> r.rpos,
                        rlen |-> r.rlen, val |-> <<>>, pre |-> dcache]
  /\ UNCHANGED <<cache_pc, regs, mapvars, treevars, mainvars, eepvars>>

\* the device changes one of its volatile registers
reg_change ==
  /\ cache_pc = "run"
  /\ \E p \in Volatile :
       regs' = [regs EXCEPT ![p] = IF @ = Regs0[p] THEN (@ + 1) % 256
                                   ELSE Regs0[p]]
  /\ UNCHANGED <<dcache, cache_pc, lastcall, mapvars, treevars, mainvars, eepvars>>

\* check_conf_range(d, pos, len): TRUE when it returns, FALSE when it calls
\* die.  d->present[p] with p at or beyond config_bufsize is a read outside
\* the allocation; oob is what such a read yields.
RECURSIVE check_conf_range(_, _, _, _)
check_conf_range(d, pos, len, oob) ==
  IF len = 0 THEN TRUE
  ELSE IF ~(IF pos < d.bufsize THEN d.present[pos] ELSE oob) THEN FALSE
  ELSE check_conf_range(d, pos + 1, len - 1, oob)

\* the bytes d->config[pos] .. d->config[pos+len-1] the value is made of,
\* least significant first
ConfBytes(d, pos, len) ==
  [i \in 1 .. len |->
     IF pos + i - 1 < d.bufsize THEN d.config[pos + i - 1] ELSE Garbage]

\* get_conf_byte (len 1), get_conf_word (len 2), get_conf_long (len 4)
get_conf ==
  /\ cache_pc = "run"
  /\ \E pos \in 0 .. MaxEnd, len \in {1, 2, 4}, oob \in BOOLEAN :
       LET fine == check_conf_range(dcache, pos, len, oob)
       IN /\ cache_pc' = (IF fine THEN "run" ELSE "dead")
          /\ lastcall' = [op |-> "get", pos |-> pos, len |-> len,
                      ret |-> IF fine THEN 1 ELSE 0, issued |-> FALSE,
                      rpos |-> 0, rlen |-> 0,
                      val |-> IF fine THEN ConfBytes(dcache, pos, len) ELSE <<>>,
                      pre |-> dcache]
  /\ UNCHANGED <<dcache, regs, mapvars, treevars, mainvars, eepvars>>


(***************************************************************************)
(* Properties of the configuration space cache.                            *)
(***************************************************************************)

Fetched == lastcall.op = "fetch"

\* the range [pos, pos+len) asked for, and the range asked of the hardware
AskedRange == lastcall.pos .. (lastcall.pos + lastcall.len - 1)

HwRange == lastcall.rpos .. (lastcall.rpos + lastcall.rlen - 1)

PresentSet(d) == {p \in 0 .. (d.bufsize - 1) : d.present[p]}

\* C6 as claimed: no byte that is already present is part of a hardware read
\* request.
C6_Original ==
  (Fetched /\ lastcall.issued) =>
    \A p \in HwRange : ~Present(lastcall.pre, p)

\* C6 amended: config_fetch issues at most one hardware read request per
\* call, none when every byte asked for is present; the request lies within
\* the range asked for, begins and ends at a byte that is not yet present and
\* covers every byte of the range that is not yet present.  Bytes already
\* present are re-requested only when they lie between two missing bytes.
C6_MinimalSpan ==
  Fetched =>
    /\ lastcall.issued <=> (\E p \in AskedRange : ~Present(lastcall.pre, p))
    /\ lastcall.issued =>
         /\ lastcall.rlen > 0
         /\ HwRange \subseteq AskedRange
         /\ ~Present(lastcall.pre, lastcall.rpos)
         /\ ~Present(lastcall.pre, lastcall.rpos + lastcall.rlen - 1)
         /\ \A p \in AskedRange : ~Present(lastcall.pre, p) => p \in HwRange

\* a request was trimmed at its start and still spans a byte already present
C6_Witness ==
  /\ Fetched
  /\ lastcall.issued
  /\ lastcall.rpos > lastcall.pos
  /\ \E p \in HwRange : Present(lastcall.pre, p)

\* C7: a successful config_fetch leaves every byte asked for present and
\* equal to the byte of the device; when the bytes of the range below n are
\* present and byte n and the last byte are not, the one hardware request is
\* for [n, pos+len); a failed hardware read returns failure and marks no byte
\* present.  Every present byte holds the byte of the device.
C7_FetchContract ==
  /\ \A p \in PresentSet(dcache) : dcache.config[p] = regs[p]
  /\ Fetched =>
       /\ lastcall.ret = 1 =>
            \A p \in AskedRange : Present(dcache, p) /\ dcache.config[p] = regs[p]
       /\ \A n \in AskedRange :
            ( /\ \A p \in lastcall.pos .. (n - 1) : Present(lastcall.pre, p)
              /\ ~Present(lastcall.pre, n)
              /\ ~Present(lastcall.pre, lastcall.pos + lastcall.len - 1) )
            => /\ lastcall.issued
               /\ lastcall.rpos = n
               /\ lastcall.rpos + lastcall.rlen = lastcall.pos + lastcall.len
       /\ lastcall.ret # 1 =>
            /\ lastcall.issued
            /\ lastcall.ret = 0
            /\ PresentSet(dcache) = PresentSet(lastcall.pre)

\* the bytes below the buffer size were present, the fetch began among them
\* and ended beyond, and the hardware was asked for the part beyond only
C7_Witness ==
  /\ Fetched
  /\ lastcall.ret = 1
  /\ PresentSet(lastcall.pre) = 0 .. (lastcall.pre.bufsize - 1)
  /\ lastcall.pos < lastcall.pre.bufsize
  /\ lastcall.pos + lastcall.len > lastcall.pre.bufsize
  /\ lastcall.rpos = lastcall.pre.bufsize
  /\ lastcall.rlen = lastcall.pos + lastcall.len - lastcall.pre.bufsize
  /\ \A p \in AskedRange : Present(dcache, p)

\* C8: a read of a configuration byte, word or long of which some byte is not
\* marked present (its offset may be at or beyond the buffer size) ends in
\* die() and returns no value.
C8_UnreadAborts ==
  lastcall.op = "get" =>
    ((\E p \in AskedRange : ~Present(lastcall.pre, p)) => lastcall.ret = 0)

\* the buffer of the last call: a range that ends beyond the buffer doubles
\* the buffer size until the range fits, and the positions added are present
\* afterwards only where this call has read them
Growth ==
  /\ (lastcall.len > 0 /\ lastcall.pos + lastcall.len > lastcall.pre.bufsize)
       => /\ dcache.bufsize >= lastcall.pos + lastcall.len
          /\ dcache.bufsize \div 2 < lastcall.pos + lastcall.len
          /\ \E k \in 1 .. MaxEnd : dcache.bufsize = lastcall.pre.bufsize * (2 ^ k)
  /\ lastcall.pos + lastcall.len <= lastcall.pre.bufsize
       => dcache.bufsize = lastcall.pre.bufsize
  /\ \A p \in lastcall.pre.bufsize .. (dcache.bufsize - 1) :
       Present(dcache, p) => (lastcall.ret = 1 /\ p \in HwRange)

\* C9 as claimed: config_fetch never clears a presence bit and never changes
\* the cached value of a present byte; a range that ends beyond the buffer
\* doubles the buffer size until the range fits, and the positions added
\* start as not present.
C9_Original ==
  Fetched =>
    /\ \A p \in PresentSet(lastcall.pre) :
         Present(dcache, p) /\ dcache.config[p] = lastcall.pre.config[p]
    /\ Growth

\* C9 amended: config_fetch never clears a presence bit; the cached value of
\* a present byte changes only when the byte lies inside the range the call
\* asks of the hardware; the buffer grows as claimed.
C9_MonotoneGrowth ==
  Fetched =>
    /\ \A p \in PresentSet(lastcall.pre) :
         /\ Present(dcache, p)
         /\ dcache.config[p] # lastcall.pre.config[p]
              => /\ lastcall.issued
                 /\ p \in HwRange
    /\ Growth

\* a fetch grew the buffer and its hardware read, which failed, changed the
\* cached value of a byte that was present
C9_Witness ==
  /\ Fetched
  /\ dcache.bufsize > lastcall.pre.bufsize
  /\ lastcall.ret = 0
  /\ \E p \in PresentSet(lastcall.pre) :
       p >= InitBufSize /\ dcache.config[p] # lastcall.pre.config[p]

(***************************************************************************)
(* Properties of the tree.                                                 *)
(***************************************************************************)

\* the devices of bus u from device d on, along struct device.next
RECURSIVE DevsFrom(_, _)
DevsFrom(nx, d) == IF d = 0 THEN <<>> ELSE <<d>> \o DevsFrom(nx, nx[d])

BusDevs(u) == DevsFrom(dnext, buses[u].first_dev)

Range(q) == {q[i] : i \in DOMAIN q}

\* the bridges grow_tree listed, host_bridge first
Chain == ChainFrom(bridges, HostId)

\* the children of bridge p from c on
RECURSIVE ChildrenFrom(_, _)
ChildrenFrom(brs, c) ==
  IF c = 0 THEN {} ELSE {c} \cup ChildrenFrom(brs, brs[c].next)

Parents(b) ==
  {p \in Range(Chain) : b \in ChildrenFrom(bridges, bridges[p].child)}

\* the bridges whose range [secondary, subordinate] encloses the primary bus
\* of b: the host root, or a bridge of the domain of b
Candidates(b) ==
  {c \in Range(Chain) :
     /\ c # b
     /\ (c = HostId \/ bridges[c].domain = bridges[b].domain)
     /\ bridges[c].secondary <= bridges[b].primary
     /\ bridges[b].primary <= bridges[c].subordinate}

\* C3: after grow_tree the parent of every bridge is, among the candidates
\* whose range encloses its primary bus, one of the tightest interval (a
\* bridge with a bridge of range [1,1] and the host root as candidates gets
\* the bridge, not the host root, as its parent).
C3_TightestParent ==
  tree_pc \in {"grown", "shown"} =>
    \A b \in Range(Chain) \ {HostId} :
      \A p \in Parents(b), c \in Candidates(b) :
        bridges[p].subordinate - bridges[p].secondary
          <= bridges[c].subordinate - bridges[c].secondary

\* C4: after grow_tree on the sorted registry every device is on the device
\* list of exactly one bus, that bus has the domain and the bus number of the
\* device, and the devices of every bus are in registry order.
C4_DevicesLinked ==
  tree_pc \in {"grown", "shown"} =>
    /\ \A d \in DOMAIN devs :
         /\ Cardinality({u \in DOMAIN buses : d \in Range(BusDevs(u))}) = 1
         /\ \A u \in DOMAIN buses :
              d \in Range(BusDevs(u)) =>
                /\ buses[u].domain = devs[d].domain
                /\ buses[u].number = devs[d].bus
    /\ \A u \in DOMAIN buses :
         LET q == BusDevs(u)
         IN \A i, j \in DOMAIN q :
              i < j => /\ q[i] < q[j]
                       /\ compare_them(devs[q[i]], devs[q[j]]) < 0

\* two devices share a bus and are linked into it by grow_tree
C4_Witness ==
  /\ tree_pc = "grown"
  /\ \E u \in DOMAIN buses : Len(BusDevs(u)) >= 2

\* C5: the walk of the tree from the host root reaches every device of the
\* registry exactly once.
C5_WalkReachesAll ==
  tree_pc = "shown" =>
    /\ Len(shown) = Len(devs)
    /\ Range(shown) = DOMAIN devs

\* C10 (tree mode): a bridge that reports secondary > subordinate is recorded
\* by grow_tree with the range [secondary, secondary].
C10_ClampedRange ==
  tree_pc \in {"grown", "shown"} =>
    \A b \in Range(Chain) \ {HostId} :
      LET r == BusRegs(devs[bridges[b].br_dev])
      IN r.secondary > r.subordinate
           => /\ bridges[b].secondary = r.secondary
              /\ bridges[b].subordinate = bridges[b].secondary

\* C13: after grow_tree no two Bus objects have the same domain and number.
C13_UniqueBus ==
  tree_pc \in {"grown", "shown"} =>
    \A u \in DOMAIN buses, v \in DOMAIN buses :
      u # v => <<buses[u].domain, buses[u].number>>
                 # <<buses[v].domain, buses[v].number>>

\* the buses a bridge owns, from bus u on along sibling
RECURSIVE BusList(_, _)
BusList(bus, u) ==
  IF u = 0 THEN <<>> ELSE <<u>> \o BusList(bus, bus[u].sibling)

\* C22: in the tree grow_tree builds every bridge of a device owns exactly
\* one Bus, its secondary bus; only the host root may own more.
C22_OneBusPerBridge ==
  tree_pc \in {"grown", "shown"} =>
    \A b \in Range(Chain) \ {HostId} :
      LET l == BusList(buses, bridges[b].first_bus)
      IN /\ Len(l) = 1
         /\ buses[l[1]].number = bridges[b].secondary

\* does following the parent links from bridge b reach the host root within
\* n steps, every bridge on the way having exactly one parent
RECURSIVE ReachesHost(_, _)
ReachesHost(b, n) ==
  IF b = HostId THEN TRUE
  ELSE IF n = 0 THEN FALSE
  ELSE /\ Cardinality(Parents(b)) = 1
       /\ ReachesHost(CHOOSE q \in Parents(b) : TRUE, n - 1)

\* the child list of bridge q: c, c->next, ...
RECURSIVE ChildList(_, _)
ChildList(brs, c) ==
  IF c = 0 THEN <<>> ELSE <<c>> \o ChildList(brs, brs[c].next)

\* C14: after grow_tree the host root has no parent, every other bridge is
\* once on the child list of exactly one bridge, and the parent links lead
\* from every bridge to the host root without repeating a bridge.
C14_BridgeTree ==
  tree_pc \in {"grown", "shown"} =>
    /\ Parents(HostId) = {}
    /\ \A b \in Range(Chain) \ {HostId} :
         /\ Cardinality(Parents(b)) = 1
         /\ \A q \in Parents(b) :
              LET l == ChildList(bridges, bridges[q].child)
              IN Cardinality({i \in DOMAIN l : l[i] = b}) = 1
         /\ ReachesHost(b, Len(Chain) - 1)

\* two bridges were linked, the primary bus of one lying in the range of
\* the other
C14_Witness ==
  /\ tree_pc = "grown"
  /\ \E b \in Range(Chain) \ {HostId}, c \in Range(Chain) \ {HostId} :
       c \in Candidates(b)

\* the buses of a bridge from bus u on, each with its device list
RECURSIVE BusesFrom(_, _, _)
BusesFrom(bus, nx, u) ==
  IF u = 0 THEN {}
  ELSE {[domain |-> bus[u].domain, number |-> bus[u].number,
         devs |-> DevsFrom(nx, bus[u].first_dev)]}
         \cup BusesFrom(bus, nx, bus[u].sibling)

\* the shape of a tree: for every bridge grow_tree listed (named by its
\* device, 0 for the host root) the devices of its parents, and its buses
\* with their device lists
Shape(st) ==
  {[dev |-> st.brs[b].br_dev,
    parents |-> {st.brs[q].br_dev :
                   q \in {x \in DOMAIN st.brs :
                            b \in ChildrenFrom(st.brs, st.brs[x].child)}},
    buses |-> BusesFrom(st.bus, st.nx, st.brs[b].first_bus)] :
     b \in Range(ChainFrom(st.brs, HostId))}

\* the tree the first call of grow_tree builds of the sorted registry
FirstRun ==
  GrowTree(devs, IF Len(devs) = 0 THEN 0 ELSE 1,
           [i \in 1 .. Len(devs) |-> IF i = Len(devs) THEN 0 ELSE i + 1],
           <<host_bridge>>, <<>>)

\* C15: a second run of grow_tree on the same registry ends with the same
\* tree shape as the first: the same parent for every bridge, the same
\* buses under every bridge and the same device list in every bus.
C15_RegrowSameShape ==
  tree_pc \in {"regrown", "hung"} =>
    /\ tree_pc = "regrown"
    /\ Shape([brs |-> bridges, bus |-> buses, nx |-> dnext]) = Shape(FirstRun)

\* the bus numbers of the header fields that belong to the header type of
\* device x, as do_map_bus names them: the PCI-to-PCI fields of a bridge
\* header, the CardBus fields of a cardbus header
OwnRegs(x) ==
  IF x.ht = "cardbus"
    THEN [primary |-> x.cb_primary, secondary |-> x.cb_card_bus,
          subordinate |-> x.cb_subordinate]
    ELSE [primary |-> x.primary, secondary |-> x.secondary,
          subordinate |-> x.subordinate]

NumPci == 2

\* exit(n) and return n from main: the status the parent sees
ExitCode(n) == n % 256

\* __exit: return (seen_errors ? 2 : 0)
MainReturnZero(seen) == 0

MainReturn(seen) == IF seen # 0 THEN 2 ELSE 0

Scan0 == [p |-> 1, log |-> <<>>, passes |-> 0, eeps |-> 0]

D30 == [a |-> 1, status |-> 0]

\* history: one record per pass of eep_process that reached the switch, and
\* the operations of every call of adna_hotreset
Hot0 == [passes |-> <<>>, resets |-> <<>>]

\* adna_preprocess: first_dev = NULL, then scan_devices from the first device
StartScan(sc) == [sc EXCEPT !.p = 1, !.log = <<>>, !.passes = @ + 1]

Exit(n) ==
  /\ main_pc' = "exited"
  /\ exit_status' = ExitCode(n)

\* argc == 2 && !strcmp(argv[1], "--version"): return 0
main_version ==
  /\ main_pc = "start"
  /\ Exit(0)
  /\ UNCHANGED <<seen_errors, scan, NumDevices, d3, hot, mapvars, treevars, cachevars, eepvars>>

\* status = ProcessCommandLine(argc, argv): exit(1) unless EXIT_SUCCESS, else
\* adna_pci_process -> adna_dev_list_init -> adna_preprocess
main_ProcessCommandLine ==
  /\ main_pc = "start"
  /\ \E ok \in BOOLEAN :
       IF ok THEN /\ main_pc' = "scan"
                  /\ scan' = StartScan(scan)
                  /\ UNCHANGED exit_status
             ELSE /\ Exit(1)
                  /\ UNCHANGED scan
  /\ UNCHANGED <<seen_errors, NumDevices, d3, hot, mapvars, treevars, cachevars, eepvars>>

\* one iteration of the loop of scan_devices: scan_device(p) returns NULL for
\* a device that is filtered out or not an Adnacom device ("skipped"), counts
\* an error and returns NULL when the header cannot be read ("unreadable"),
\* and else returns the device, which is linked into the list ("ok")
scan_device ==
  /\ main_pc = "scan"
  /\ scan.p <= NumPci
  /\ \E outcome \in {"skipped", "unreadable", "ok"} :
       /\ scan' = [scan EXCEPT !.p = @ + 1, !.log = Append(@, outcome)]
       /\ seen_errors' = IF outcome = "unreadable" THEN seen_errors + 1
                         ELSE seen_errors
  /\ UNCHANGED <<main_pc, exit_status, NumDevices, d3, hot, mapvars, treevars, cachevars, eepvars>>

\* the devices scan_devices linked into the list
Listed(log) == {k \in DOMAIN log : log[k] = "ok"}

\* the rest of adna_dev_list_init after scan_devices: NumDevices =
\* count_upstream(), exit(-1) when it is 0.  The first call comes from
\* adna_pci_process, which returns 0 to main, and main goes on to
\* adna_d3_to_d0; the later ones come from eep_process
adna_dev_list_init ==
  /\ main_pc = "scan"
  /\ scan.p > NumPci
  /\ \E n \in 0 .. Cardinality(Listed(scan.log)) :
       /\ NumDevices' = n
       /\ IF n = 0
            THEN /\ Exit(-1)
                 /\ UNCHANGED d3
            ELSE /\ main_pc' = IF scan.passes = 1 THEN "d3" ELSE "eep"
                 /\ d3' = IF scan.passes = 1 THEN D30 ELSE d3
                 /\ UNCHANGED exit_status
  /\ UNCHANGED <<seen_errors, scan, hot, mapvars, treevars, cachevars, eepvars>>

\* adna_setpci_cmd returns the int that setpci returned, unchanged:
\* EXIT_SUCCESS (0), EXIT_FAILURE (1) or another value
SetpciStatus == {-1, 0, 1, 2}

\* one iteration of the loop of adna_d3_to_d0 over the adna devices: a
\* device in D3 gets status = adna_setpci_cmd(D3_TO_D0, a->this), and
\* EXIT_FAILURE (1) counts an error
adna_d3_to_d0 ==
  /\ main_pc = "d3"
  /\ d3.a <= NumDevices
  /\ \E bIsD3 \in BOOLEAN, st \in SetpciStatus :
       /\ d3' = [a |-> d3.a + 1, status |-> IF bIsD3 THEN st ELSE d3.status]
       /\ seen_errors' = IF bIsD3 /\ st = 1 THEN seen_errors + 1
                         ELSE seen_errors
  /\ UNCHANGED <<main_pc, exit_status, scan, NumDevices, hot, mapvars, treevars, cachevars, eepvars>>

\* adna_d3_to_d0 returns status: exit(1) unless EXIT_SUCCESS
main_after_d3 ==
  /\ main_pc = "d3"
  /\ d3.a > NumDevices
  /\ IF d3.status # 0
       THEN Exit(1)
       ELSE /\ main_pc' = "select"
            /\ UNCHANGED exit_status
  /\ UNCHANGED <<seen_errors, scan, NumDevices, d3, hot, mapvars, treevars, cachevars, eepvars>>

\* bListOnly, or the device selection: 0, a number above NumDevices or an
\* invalid line go to __exit, a device number goes to eep_process(num),
\* which starts with adna_dev_list_init
main_select ==
  /\ main_pc = "select"
  /\ \E choice \in {"exit", "device"} :
       IF choice = "exit"
         THEN /\ main_pc' = "exit_label"
              /\ UNCHANGED scan
         ELSE /\ main_pc' = "scan"
              /\ scan' = [StartScan(scan) EXCEPT !.eeps = 1]
  /\ UNCHANGED <<seen_errors, exit_status, NumDevices, d3, hot, mapvars, treevars, cachevars, eepvars>>

\* the value of the presence field, (read >> EEP_PRSNT_OFFSET) & 3
Presence == {"NOT_PRSNT", "PRSNT_VALID", "PRSNT_INVALID", "other"}

\* switch (eep_present) of eep_process: the status it sets
SwitchStatus(present) ==
  CASE present = "NOT_PRSNT" -> "EEP_NOT_EXIST"
    [] present = "PRSNT_VALID" -> "EXIT_SUCCESS"
    [] present = "PRSNT_INVALID" -> "EEP_BLANK_INVALID"
    [] OTHER -> "EXIT_FAILURE"

\* the EEPROM operations of one pass: eep_init in the case PRSNT_INVALID,
\* and if (EXIT_SUCCESS == status) status = EepFile(d)
EepCmdsAlwaysFile(present) == <<"EepFile">>

EepCmds(present) ==
  (IF present = "PRSNT_INVALID" THEN <<"eep_init">> ELSE <<>>)
    \o (IF SwitchStatus(present) = "EXIT_SUCCESS" THEN <<"EepFile">> ELSE <<>>)

\* the status eep_process returns; file is what EepFile returned
EepStatus(present, file) ==
  IF SwitchStatus(present) = "EXIT_SUCCESS" THEN file
  ELSE SwitchStatus(present)

\* the rest of eep_process after adna_dev_list_init: exit(-1) when the
\* device is not found or the register cannot be read, else the switch on
\* the presence field and the status; back in main, after the first call
\* EEP_NOT_EXIST and EEP_BLANK_INVALID lead to adna_populate_parent,
\* adna_hotreset and a second call, every other status and the second call
\* to __exit
eep_process ==
  /\ main_pc = "eep"
  /\ \E ok \in BOOLEAN, present \in Presence,
        file \in {"EXIT_SUCCESS", "EEP_FAIL"} :
       IF ~ok
         THEN /\ Exit(-1)
              /\ UNCHANGED hot
         ELSE LET status == EepStatus(present, file)
              IN /\ hot' = [hot EXCEPT !.passes = Append(@,
                              [present |-> present, cmds |-> EepCmds(present),
                               status |-> status])]
                 /\ main_pc' =
                      IF scan.eeps = 1
                         /\ status \in {"EEP_NOT_EXIST", "EEP_BLANK_INVALID"}
                        THEN "hotreset" ELSE "exit_label"
                 /\ UNCHANGED exit_status
  /\ UNCHANGED <<seen_errors, scan, NumDevices, d3, mapvars, treevars, cachevars, eepvars>>

\* adna_hotreset after the device was found: the commands and the sysfs
\* writes it issues, in order; st is the status of D0_TO_D3, en and dis the
\* (ignored) statuses of the two bridge control writes.  Only
\* EXIT_FAILURE == status ends the function after D0_TO_D3
Hotreset(st, en, dis) ==
  IF st = 1
    THEN << [op |-> "D0_TO_D3", st |-> st] >>
    ELSE << [op |-> "D0_TO_D3", st |-> st],
            [op |-> "remove_this", st |-> 0],
            [op |-> "HOTRESET_ENABLE", st |-> en],
            [op |-> "HOTRESET_DISABLE", st |-> dis],
            [op |-> "remove_parent", st |-> 0],
            [op |-> "rescan", st |-> 0] >>

\* adna_populate_parent(num); adna_hotreset(num): main ignores what both
\* return and goes on to the second eep_process(num), which starts with
\* adna_dev_list_init
adna_hotreset ==
  /\ main_pc = "hotreset"
  /\ \E st \in SetpciStatus, en \in SetpciStatus, dis \in SetpciStatus :
       hot' = [hot EXCEPT !.resets = Append(@, Hotreset(st, en, dis))]
  /\ main_pc' = "scan"
  /\ scan' = [StartScan(scan) EXCEPT !.eeps = 2]
  /\ UNCHANGED <<seen_errors, exit_status, NumDevices, d3, mapvars, treevars, cachevars, eepvars>>

\* __exit: adna_delete_list(); return (seen_errors ? 2 : 0)
main_return ==
  /\ main_pc = "exit_label"
  /\ Exit(MainReturn(seen_errors))
  /\ UNCHANGED <<seen_errors, scan, NumDevices, d3, hot, mapvars, treevars, cachevars, eepvars>>

(***************************************************************************)
(* Properties of the run of the tool.                                      *)
(***************************************************************************)

\* C16: when the header of an enumerated device cannot be read the whole
\* scan is aborted: no later device is scanned and the process ends with an
\* error.
C16_ScanAborts ==
  \A k \in DOMAIN scan.log :
    scan.log[k] = "unreadable" =>
      /\ k = Len(scan.log)
      /\ main_pc = "exited"
      /\ exit_status # 0

\* C18: whenever an error was counted the process ends with a status other
\* than zero, on every path through main; the status is zero only when no
\* error was counted.
C18_ErrorsExitNonZero ==
  main_pc = "exited" =>
    /\ seen_errors > 0 => exit_status # 0
    /\ exit_status = 0 => seen_errors = 0
    /\ exit_status \in 0 .. 255

\* C27: EepFile runs in a pass only when the presence field of that pass
\* read present-and-valid; a pass that reads not-present issues no EEPROM
\* operation and one that reads present-but-invalid only eep_init; a run has
\* at most two passes and at most one hot reset, and a second pass only
\* after the first returned EEP_NOT_EXIST or EEP_BLANK_INVALID and the hot
\* reset was called.
C27_PassControl ==
  /\ \A k \in DOMAIN hot.passes :
       LET pass == hot.passes[k]
       IN /\ (\E j \in DOMAIN pass.cmds : pass.cmds[j] = "EepFile")
               => pass.present = "PRSNT_VALID"
          /\ pass.present = "NOT_PRSNT" => pass.cmds = <<>>
          /\ pass.present = "PRSNT_INVALID" => pass.cmds = <<"eep_init">>
  /\ Len(hot.passes) <= 2
  /\ Len(hot.resets) <= 1
  /\ scan.eeps <= 2
  /\ (Len(hot.passes) = 2 \/ scan.eeps = 2) =>
       /\ hot.passes[1].status \in {"EEP_NOT_EXIST", "EEP_BLANK_INVALID"}
       /\ Len(hot.resets) = 1

\* the run ended after two passes: the first found the EEPROM blank and
\* initialised it, the second found it valid and ran EepFile
C27_Witness ==
  /\ main_pc = "exited"
  /\ Len(hot.passes) = 2
  /\ hot.passes[1].cmds = <<"eep_init">>
  /\ hot.passes[2].cmds = <<"EepFile">>
  /\ Len(hot.resets) = 1

\* position of the first operation op in the sequence r, 0 when absent
OpAt(r, op) ==
  IF \E k \in DOMAIN r : r[k].op = op
    THEN CHOOSE k \in DOMAIN r :
           r[k].op = op /\ \A j \in 1 .. (k - 1) : r[j].op # op
    ELSE 0

\* C28: the hot reset is asserted only after the device was put into D3
\* with success and removed; HOTRESET_ENABLE is followed by
\* HOTRESET_DISABLE before the rescan; when D0_TO_D3 does not succeed there
\* is no removal, no reset and no rescan.
C28_HotresetOrder ==
  \A n \in DOMAIN hot.resets :
    LET r == hot.resets[n]
        en == OpAt(r, "HOTRESET_ENABLE")
    IN /\ r[1].op = "D0_TO_D3"
       /\ r[1].st # 0 => Len(r) = 1
       /\ en # 0 =>
            /\ r[1].st = 0
            /\ OpAt(r, "remove_this") \in 2 .. (en - 1)
            /\ OpAt(r, "HOTRESET_DISABLE") > en
            /\ OpAt(r, "rescan") > OpAt(r, "HOTRESET_DISABLE")
       /\ \A k \in DOMAIN r :
            /\ r[k].op = "HOTRESET_ENABLE" =>
                 \E j \in (k + 1) .. Len(r) :
                   /\ r[j].op = "HOTRESET_DISABLE"
                   /\ \A i \in k .. j : r[i].op # "rescan"
            /\ r[k].op = "rescan" => en # 0

\* main returned through __exit after both a header that could not be read
\* and a failed power state change were counted
C18_Witness ==
  /\ main_pc = "exited"
  /\ seen_errors >= 2
  /\ exit_status = 2
  /\ d3.a > 1
  /\ \E k \in DOMAIN scan.log : scan.log[k] = "unreadable"

(***************************************************************************)
(* The h1a_ee tool: the EEPROM controller protocol (check_for_ready_or_done,*)
(* eep_data, eep_read, eep_write, eep_init) and EepromFileLoad,            *)
(* EepromFileSave (part_000).                                              *)
(***************************************************************************)

\* uint8_t i and uint8_t four_byte_count count modulo 256
U8Mod == 256

\* the file images of every content have at most MaxImg bytes
MaxImg == 6

\* byte values: 0x00, 0x42 and one other value
Bytes == {0, 66, 1}

\* EepOptions.SerialNumber[0..3] as the option -n set it; without -n it is
\* 0 0 0 0
SerialNumber == <<2, 3, 4, 5>>

\* 32-bit values, as their four bytes from the least significant one on
W0 == <<0, 0, 0, 0>>

WFF == <<255, 255, 255, 255>>

\* uint32_t init_buffer = 0x0000005a
W5A == <<90, 0, 0, 0>>

\* a long image: n bytes of the other value, with 0x42 0x00 at byte m when
\* m >= 0
LongImage(n, m) ==
  [k \in 1 .. n |-> IF k - 1 = m THEN 66
                    ELSE IF m >= 0 /\ k - 1 = m + 1 THEN 0 ELSE 1]

\* the files EepromFileLoad is run on: every content up to MaxImg bytes, and
\* an image of 8 bytes with the marker at byte 2, and long images of 256
\* and of 1028 bytes
Files ==
  UNION {[1 .. n -> Bytes] : n \in 0 .. MaxImg}
    \cup {LongImage(8, 2)}
    \cup {LongImage(U8Mod, m) : m \in {-1, 0, U8Mod - 2}}
    \cup {LongImage(4 * U8Mod + 4, m) : m \in {-1, 0}}

\* the EEPROM contents EepromFileSave is run on: the header 0x5a 0x00 and
\* the 16-bit register byte count b2 + 256 * b3, then bytes of the other
\* value with 0x42 0x00 at byte m when m >= 0; the EEPROM holds the
\* 4 + b2 + 256 * b3 bytes the header announces and is blank behind them
RomByte(b2, b3, m, o) ==
  CASE o = 0 -> 90
    [] o = 1 -> 0
    [] o = 2 -> b2
    [] o = 3 -> b3
    [] OTHER -> IF o = m THEN 66 ELSE IF m >= 0 /\ o = m + 1 THEN 0 ELSE 1

Rom(b2, b3, m) ==
  LET size == 4 + b2 + 256 * b3
      last == IF size > 4 * U8Mod THEN U8Mod - 1 ELSE (size - 1) \div 4
  IN [blk \in 0 .. last |->
        [j \in 1 .. 4 |->
           IF 4 * blk + j - 1 < size THEN RomByte(b2, b3, m, 4 * blk + j - 1)
           ELSE 255]]

Roms ==
  {Rom(b2, b3, m) :
     b2 \in {0, 1, 2, 3, 66, 252}, b3 \in {0, 1, 4}, m \in {-1, 8, 300}}

\* the EEPROM contents EepromFileLoad is run on: a blank header, a header
\* and two bytes, and a header with the marker
LoadRoms == {Rom(0, 0, -1), Rom(2, 0, -1), Rom(66, 0, 8)}

\* the files every EEPROM content is combined with
ShortFiles == {f \in Files : Len(f) <= 1}

\* the block blk of the EEPROM; a block never written is blank
Mem(eeprom, blk) == IF blk \in DOMAIN eeprom THEN eeprom[blk] ELSE WFF

Store(eeprom, blk, w) ==
  [x \in DOMAIN eeprom \cup {blk} |-> IF x = blk THEN w ELSE eeprom[x]]

\* pcimem(p, reg, data): the accesses of the register, in order.  The
\* register is read first on every call; when data is not 0 it is written
\* and then read again, a read the compiler may drop (rb) since the pointer
\* is not volatile
Pcimem(reg, cmd, zero, rb) ==
  <<[op |-> "read", reg |-> reg, cmd |-> "none"]>>
    \o (IF zero THEN <<>> ELSE <<[op |-> "write", reg |-> reg, cmd |-> cmd]>>)
    \o (IF ~zero /\ rb
          THEN <<[op |-> "read", reg |-> reg, cmd |-> "none"]>> ELSE <<>>)

\* check_for_ready_or_done: returns once the status bit reads CMD_COMPLETE
Poll == [op |-> "poll", reg |-> "CTRL", cmd |-> "none"]

\* eep_data(d, cmd, buffer): the register accesses, in order
EepDataOps(cmd, rb) ==
  <<Poll>> \o Pcimem("CTRL", cmd, FALSE, rb) \o <<Poll>>
    \o (IF cmd = "RD" THEN Pcimem("BUF", "none", TRUE, rb) ELSE <<>>)
    \o <<Poll>>

\* eep_read, eep_read_16
EepReadOps(rb) == EepDataOps("RD", rb)

\* eep_write, eep_write_16, eep_init: the buffer register gets the value w,
\* then the write enable latch is set, then the write command is given
EepWriteOps(w, rb) ==
  <<Poll>> \o Pcimem("BUF", "none", w = W0, rb) \o <<Poll, Poll>>
    \o Pcimem("CTRL", "WREN", FALSE, rb) \o <<Poll>>
    \o EepDataOps("WR", rb)

\* the buffer register after pcimem(d->dev, EEP_BUFFER_ADDR, w)
BufAfter(buf, w) == IF w = W0 THEN buf ELSE w

\* the controller after eep_write(d, blk, w); took: the EEPROM stored the
\* block
HwWrite(h, blk, w, took) ==
  LET b == BufAfter(h.buf, w)
  IN [h EXCEPT !.buf = b,
                !.eeprom = IF took THEN Store(h.eeprom, blk, b) ELSE @]

\* the controller after eep_read(d, blk, &v); v is then h.buf
HwRead(h, blk) == [h EXCEPT !.buf = Mem(h.eeprom, blk)]

\* *(uint32_t*)(g_pBuffer + offset), for offset + 3 below the size
WordAt(b, offset) ==
  <<b[offset + 1], b[offset + 2], b[offset + 3], b[offset + 4]>>

\* i++ of the uint8_t counters
NextU8(i) == (i + 1) % U8Mod

\* FileSize & ~0x3
Aligned(n) == n - (n % 4)

Ld0 ==
  [fn |-> "none", bLoadFile |-> FALSE, bSerialNumber |-> FALSE,
   file |-> <<>>, bIsInit |-> FALSE, i |-> 0, offset |-> 0,
   four_byte_count |-> 0, rc |-> "EXIT_SUCCESS", serial |-> W0,
   past |-> <<-1, -1, -1, -1, -1>>,
   mismatch |-> FALSE, after |-> 0, scan_oob |-> FALSE, wrapped |-> FALSE,
   words |-> 0, blocks |-> {}]

\* readback: the build reads a register again after writing it in pcimem
Hw0 == [buf |-> WFF, eeprom |-> << >>, readback |-> FALSE]

\* the five bytes that follow the buffer in memory after malloc: -1 stands
\* for a byte not accessed yet, which holds whatever the allocator and
\* earlier chunks left there
Past == [k \in 1 .. 5 |-> -1]

\* the positions behind the buffer b among the byte offsets ks
Behind(b, ks) == {k - Len(b) + 1 : k \in {x \in ks : x >= Len(b)}}

\* the memory behind the buffer once the positions R were read: a byte
\* read for the first time has any value, and keeps it
PastRead(p, R) ==
  {[k \in 1 .. 5 |-> IF p[k] = -1 /\ k \in R THEN v[k] ELSE p[k]] :
     v \in [R -> Bytes]}

\* g_pBuffer[k]: a byte of the buffer b, or of the memory p behind it
ByteAt(b, p, k) == IF k < Len(b) THEN b[k + 1] ELSE p[k - Len(b) + 1]

\* the buffer and the memory behind it after g_pBuffer[k] = v
PutByte(m, k, v) ==
  IF k < Len(m.buf) THEN [m EXCEPT !.buf[k + 1] = v]
  ELSE [m EXCEPT !.past[k - Len(m.buf) + 1] = v]

\* the locals of EepromFileLoad and EepromFileSave at their entry
Entry(l, fn) ==
  [l EXCEPT !.fn = fn, !.i = 0, !.offset = 0, !.four_byte_count = 0,
            !.rc = "EXIT_SUCCESS", !.words = 0, !.blocks = {}]

\* EepFile after EepromFileSave returned: with bLoadFile set it goes on to
\* EepromFileLoad whatever was returned, and else returns rc
AfterSave(l, rc) ==
  IF l.bLoadFile THEN Entry(l, "load") ELSE [l EXCEPT !.rc = rc]

PcAfterSave(l) == IF l.bLoadFile THEN "start" ELSE "done"

\* n times the sequence ops
Repeat(ops, n) == [k \in 1 .. (n * Len(ops)) |-> ops[((k - 1) % Len(ops)) + 1]]

\* EepSize: 4 plus the upper 16 bits of the header (ExtraBytes is 0)
SaveSize(eeprom) == 4 + Mem(eeprom, 0)[3] + 256 * Mem(eeprom, 0)[4]

\* the buffer after the read loop of EepromFileSave and the eep_read_16 of a
\* remainder: word k comes from block k modulo 256; eep_read_16 stores two
\* bytes, so the third byte of a remainder of three keeps what malloc left
SaveBuffer(eeprom, fill) ==
  LET size == SaveSize(eeprom)
  IN [k \in 1 .. size |->
        IF k - 1 >= Aligned(size) + 2 THEN fill
        ELSE Mem(eeprom, ((k - 1) \div 4) % U8Mod)[((k - 1) % 4) + 1]]

\* the memory behind the buffer after the read loop: for a remainder of one
\* byte the second byte of eep_read_16 lands behind the buffer
SavePast(eeprom) ==
  LET size == SaveSize(eeprom)
  IN IF size % 4 = 1
       THEN [Past EXCEPT ![1] = Mem(eeprom, (size \div 4) % U8Mod)[2]]
       ELSE Past

\* EepromFileSave up to the second "Ok": eep_read of the header, malloc
\* (EEP_FAIL when it fails), the read loop and the eep_read_16 of a
\* remainder; then the file is written (both options clear), or the buffer
\* is scanned (bLoadFile set, bSerialNumber clear), or nothing.  For a
\* remainder of one byte eep_read_16 stores behind the buffer, which may end
\* the process
EepromFileSave_read ==
  /\ eep_pc = "read"
  /\ ld.fn = "save"
  /\ \E ok \in BOOLEAN, fill \in Bytes, crash \in BOOLEAN :
       IF ok
         THEN LET size == SaveSize(hw.eeprom)
                  n == Aligned(size) \div 4
                  reads == IF size % 4 = 0 THEN n ELSE n + 1
                  l == [ld EXCEPT
                          !.words = n,
                          !.blocks = {k % U8Mod : k \in 0 .. (n - 1)},
                          !.offset = Aligned(size),
                          !.four_byte_count = n % U8Mod,
                          !.past = SavePast(hw.eeprom)]
              IN /\ size % 4 # 3 => fill = 0
                 /\ crash => size % 4 = 1
                 /\ g_pBuffer' = SaveBuffer(hw.eeprom, fill)
                 /\ hw' = HwRead(hw, (reads - 1) % U8Mod)
                 /\ trace' = Repeat(EepReadOps(hw.readback), 1 + reads)
                 /\ IF crash
                      THEN eep_pc' = "crashed" /\ ld' = l
                    ELSE IF ~ld.bSerialNumber /\ ~ld.bLoadFile
                      THEN eep_pc' = "write" /\ ld' = l
                    ELSE IF ~ld.bSerialNumber /\ ld.bLoadFile
                      THEN eep_pc' = "scan" /\ ld' = l
                    ELSE /\ eep_pc' = PcAfterSave(l)
                         /\ ld' = AfterSave(l, "EXIT_SUCCESS")
         ELSE /\ fill = 0
              /\ ~crash
              /\ hw' = HwRead(hw, 0)
              /\ trace' = EepReadOps(hw.readback)
              /\ eep_pc' = PcAfterSave(ld)
              /\ ld' = AfterSave(ld, "EEP_FAIL")
              /\ UNCHANGED g_pBuffer
  /\ UNCHANGED <<mapvars, treevars, cachevars, mainvars>>

\* EepromFileSave, "Write data to file": EEP_FAIL when fopen fails, else the
\* buffer is written and the function returns EXIT_SUCCESS
EepromFileSave_write ==
  /\ eep_pc = "write"
  /\ ld.fn = "save"
  /\ \E ok \in BOOLEAN :
       ld' = AfterSave(ld, IF ok THEN "EXIT_SUCCESS" ELSE "EEP_FAIL")
  /\ eep_pc' = PcAfterSave(ld)
  /\ trace' = <<>>
  /\ UNCHANGED <<g_pBuffer, hw, mapvars, treevars, cachevars, mainvars>>

\* one evaluation of the loop for (uint8_t i = 0; i < EepSize; i++) of
\* EepromFileSave: the test, and the body and i++ when the test holds.  The
\* marker stores the serial number of the device, a header of a blank
\* EEPROM at i == 2 sets bIsInit; after the loop the function returns
\* EXIT_SUCCESS.  An access behind the buffer may end the process
EepromFileSave_scan ==
  /\ eep_pc = "scan"
  /\ ld.fn = "save"
  /\ IF ld.i >= Len(g_pBuffer)
       THEN /\ eep_pc' = PcAfterSave(ld)
            /\ ld' = AfterSave(ld, "EXIT_SUCCESS")
       ELSE LET i == ld.i
                first == g_pBuffer[i + 1]
                two == first = 66 \/ (i = 2 /\ first = 0)
            IN \E crash \in BOOLEAN,
                  p1 \in PastRead(ld.past,
                                  IF two THEN Behind(g_pBuffer, {i + 1})
                                  ELSE {}) :
                 LET second == ByteAt(g_pBuffer, p1, i + 1)
                     found == first = 66 /\ second = 0
                     blank == ~found /\ i = 2 /\ first = 0 /\ second = 0
                     oob == \/ two /\ i + 1 >= Len(g_pBuffer)
                            \/ found /\ i + 5 >= Len(g_pBuffer)
                 IN \E p2 \in PastRead(p1,
                                       IF found /\ ~crash
                                         THEN Behind(g_pBuffer, (i + 2) .. (i + 5))
                                         ELSE {}) :
                      /\ crash => oob
                      /\ IF crash
                           THEN /\ eep_pc' = "crashed"
                                /\ ld' = [ld EXCEPT !.scan_oob = TRUE,
                                                    !.past = p2]
                         ELSE IF found
                           THEN /\ eep_pc' = PcAfterSave(ld)
                                /\ ld' = AfterSave(
                                     [ld EXCEPT
                                        !.scan_oob = @ \/ oob,
                                        !.past = p2,
                                        !.serial =
                                          <<ByteAt(g_pBuffer, p2, i + 5),
                                            ByteAt(g_pBuffer, p2, i + 4),
                                            ByteAt(g_pBuffer, p2, i + 3),
                                            ByteAt(g_pBuffer, p2, i + 2)>>],
                                     "EXIT_SUCCESS")
                         ELSE IF blank
                           THEN /\ eep_pc' = PcAfterSave(ld)
                                /\ ld' = AfterSave(
                                     [ld EXCEPT !.bIsInit = TRUE, !.past = p2],
                                     "EXIT_SUCCESS")
                         ELSE /\ eep_pc' = "scan"
                              /\ ld' = [ld EXCEPT
                                          !.i = NextU8(i),
                                          !.wrapped = @ \/ (i + 1 = U8Mod),
                                          !.scan_oob = @ \/ oob,
                                          !.past = p2]
  /\ trace' = <<>>
  /\ UNCHANGED <<g_pBuffer, hw, mapvars, treevars, cachevars, mainvars>>

\* EepromFileLoad up to "Ok (%dB)": EEP_FAIL when the file cannot be opened
\* or malloc fails, else the file is read into g_pBuffer; the scan for the
\* serial number is skipped when bIsInit is set
EepromFileLoad_start ==
  /\ eep_pc = "start"
  /\ ld.fn = "load"
  /\ \E ok \in BOOLEAN :
       IF ok
         THEN /\ g_pBuffer' = ld.file
              /\ eep_pc' = IF ld.bIsInit THEN "program" ELSE "scan"
              /\ ld' = [ld EXCEPT !.past = Past]
         ELSE /\ eep_pc' = "done"
              /\ ld' = [ld EXCEPT !.rc = "EEP_FAIL"]
              /\ g_pBuffer' = <<>>
  /\ trace' = <<>>
  /\ UNCHANGED <<hw, mapvars, treevars, cachevars, mainvars>>

\* the buffer and the memory behind it after the serial number is stored
\* behind the marker at byte i
WithSerial(b, p, sn, i) ==
  PutByte(PutByte(PutByte(PutByte([buf |-> b, past |-> p],
                                  i + 5, sn[1]),
                          i + 4, sn[2]),
                  i + 3, sn[3]),
          i + 2, sn[4])

\* one evaluation of the loop for (uint8_t i = 0; i < FileSize; i++) of
\* EepromFileLoad: the test, and the body and i++ when the test holds.
\* g_pBuffer[i+1] is read only when g_pBuffer[i] is 0x42; an access behind
\* the buffer may end the process
EepromFileLoad_scan ==
  /\ eep_pc = "scan"
  /\ ld.fn = "load"
  /\ IF ld.i >= Len(g_pBuffer)
       THEN /\ eep_pc' = "program"
            /\ UNCHANGED <<g_pBuffer, ld>>
       ELSE LET i == ld.i
                first == g_pBuffer[i + 1]
            IN \E crash \in BOOLEAN,
                  p1 \in PastRead(ld.past,
                                  IF first = 66 THEN Behind(g_pBuffer, {i + 1})
                                  ELSE {}) :
                 LET second == ByteAt(g_pBuffer, p1, i + 1)
                     found == first = 66 /\ second = 0
                     oob == \/ first = 66 /\ i + 1 >= Len(g_pBuffer)
                            \/ found /\ i + 5 >= Len(g_pBuffer)
                     m == WithSerial(g_pBuffer, p1, ld.serial, i)
                 IN /\ crash => oob
                    /\ IF crash
                         THEN /\ eep_pc' = "crashed"
                              /\ ld' = [ld EXCEPT !.scan_oob = TRUE,
                                                  !.past = p1]
                              /\ UNCHANGED g_pBuffer
                       ELSE IF found
                         THEN /\ eep_pc' = "program"
                              /\ g_pBuffer' = m.buf
                              /\ ld' = [ld EXCEPT !.scan_oob = @ \/ oob,
                                                  !.past = m.past]
                       ELSE /\ eep_pc' = "scan"
                            /\ ld' = [ld EXCEPT
                                        !.i = NextU8(i),
                                        !.wrapped = @ \/ (i + 1 = U8Mod),
                                        !.scan_oob = @ \/ oob,
                                        !.past = p1]
                            /\ UNCHANGED g_pBuffer
  /\ trace' = <<>>
  /\ UNCHANGED <<hw, mapvars, treevars, cachevars, mainvars>>

\* one pass of the loop that programs the 32-bit words: eep_write of the
\* next word to block four_byte_count, eep_read of the block, and the
\* comparison; a difference sets rc = EEP_FAIL and leaves through
\* _Exit_File_Load
EepromFileLoad_word ==
  /\ eep_pc = "program"
  /\ ld.fn = "load"
  /\ ld.offset < Aligned(Len(g_pBuffer))
  /\ \E took \in BOOLEAN :
       LET value == WordAt(g_pBuffer, ld.offset)
           blk == ld.four_byte_count
           h == HwRead(HwWrite(hw, blk, value, took), blk)
           differs == h.buf # value
       IN /\ hw' = h
          /\ ld' = [ld EXCEPT
                      !.words = @ + 1,
                      !.blocks = @ \cup {blk},
                      !.after = IF ld.mismatch THEN @ + 1 ELSE @,
                      !.mismatch = @ \/ differs,
                      !.rc = IF differs THEN "EEP_FAIL" ELSE @,
                      !.offset = IF differs THEN @ ELSE @ + 4,
                      !.four_byte_count = IF differs THEN @ ELSE NextU8(@)]
          /\ eep_pc' = IF differs THEN "done" ELSE "program"
  /\ trace' = EepWriteOps(WordAt(g_pBuffer, ld.offset), hw.readback)
              \o EepReadOps(hw.readback)
  /\ UNCHANGED <<g_pBuffer, mapvars, treevars, cachevars, mainvars>>

\* after the loop: value = *(uint32_t*)(g_pBuffer + offset) loads four bytes,
\* of which one to three lie behind the buffer, so the load may end the
\* process; the lower 16 bits are written with eep_write_16 and read back
\* with eep_read_16, and a difference leaves through _Exit_File_Load with rc
\* as it is
EepromFileLoad_tail ==
  /\ eep_pc = "program"
  /\ ld.fn = "load"
  /\ ld.offset >= Aligned(Len(g_pBuffer))
  /\ IF ld.offset < Len(g_pBuffer)
       THEN \E crash \in BOOLEAN :
              IF crash
                THEN /\ eep_pc' = "crashed"
                     /\ trace' = <<>>
                     /\ UNCHANGED <<hw, ld>>
              ELSE \E took \in BOOLEAN,
                      p \in PastRead(ld.past,
                                     Behind(g_pBuffer,
                                            (ld.offset + 1) .. (ld.offset + 3))) :
                     LET lo == g_pBuffer[ld.offset + 1]
                         hi == ByteAt(g_pBuffer, p, ld.offset + 1)
                         blk == ld.four_byte_count
                         h == HwRead(HwWrite(hw, blk, <<lo, hi, 255, 255>>, took),
                                     blk)
                         differs == <<h.buf[1], h.buf[2]>> # <<lo, hi>>
                     IN /\ hw' = h
                        /\ ld' = [ld EXCEPT
                                    !.after = IF ld.mismatch THEN @ + 1 ELSE @,
                                    !.mismatch = @ \/ differs,
                                    !.past = p]
                        /\ trace' = EepWriteOps(<<lo, hi, 255, 255>>, hw.readback)
                                      \o EepReadOps(hw.readback)
                        /\ eep_pc' = "done"
       ELSE /\ trace' = <<>>
            /\ eep_pc' = "done"
            /\ UNCHANGED <<hw, ld>>
  /\ UNCHANGED <<g_pBuffer, mapvars, treevars, cachevars, mainvars>>

\* eep_init(d): 0x0000005a goes to the buffer register and is written to
\* block 0 with the address width override
eep_init ==
  /\ eep_pc = "start"
  /\ ld.fn = "init"
  /\ \E took \in BOOLEAN : hw' = HwWrite(hw, 0, W5A, took)
  /\ trace' = EepWriteOps(W5A, hw.readback)
  /\ eep_pc' = "done"
  /\ UNCHANGED <<g_pBuffer, ld, mapvars, treevars, cachevars, mainvars>>

\* eep_erase(d): the same with 0xffffffff
eep_erase ==
  /\ eep_pc = "start"
  /\ ld.fn = "erase"
  /\ \E took \in BOOLEAN : hw' = HwWrite(hw, 0, WFF, took)
  /\ trace' = EepWriteOps(WFF, hw.readback)
  /\ eep_pc' = "done"
  /\ UNCHANGED <<g_pBuffer, ld, mapvars, treevars, cachevars, mainvars>>

(***************************************************************************)
(* Properties of the EEPROM functions.                                     *)
(***************************************************************************)

\* C26: EepromFileLoad returns failure whenever a value read back differs
\* from the value just written, for the 32-bit words and for the remaining
\* 16-bit value, and after the first difference it writes nothing more to
\* the EEPROM.
C26_VerifyFails ==
  (ld.fn = "load" /\ ld.mismatch) =>
    /\ eep_pc = "done"
    /\ ld.rc = "EEP_FAIL"
    /\ ld.after = 0

\* C29: the scans for the serial number marker in EepromFileLoad and
\* EepromFileSave end for every image: the counter i never starts over
\* from 0; they never access the buffer at or beyond its size; and the
\* block counter addresses a block of its own for every 32-bit word.
C29_ScanBounded ==
  /\ ~ld.wrapped
  /\ ~ld.scan_oob
  /\ Cardinality(ld.blocks) = ld.words

\* the last write before position k of the trace, 0 when there is none
RECURSIVE WriteBack(_)
WriteBack(j) ==
  IF j <= 0 THEN 0
  ELSE IF trace[j].op = "write" THEN j ELSE WriteBack(j - 1)

LastWrite(k) == WriteBack(k - 1)

\* C30: every write of a register comes after a ready poll that saw the
\* command complete since the write before it; the write command comes
\* after a write of the data buffer and then the set-write-enable-latch
\* command, in that order; the data buffer is read only after the read
\* command was given and a poll saw it complete.
C30_Protocol ==
  \A k \in DOMAIN trace :
    /\ trace[k].op = "write" =>
         \E x \in (LastWrite(k) + 1) .. (k - 1) : trace[x].op = "poll"
    /\ (trace[k].op = "write" /\ trace[k].cmd = "WR") =>
         LET j == LastWrite(k)
             i == LastWrite(j)
         IN /\ j # 0 /\ trace[j].cmd = "WREN"
            /\ i # 0 /\ trace[i].reg = "BUF"
    /\ (trace[k].op = "read" /\ trace[k].reg = "BUF") =>
         LET j == LastWrite(k)
         IN /\ j # 0 /\ trace[j].cmd = "RD"
            /\ \E x \in (j + 1) .. (k - 1) : trace[x].op = "poll"

(***************************************************************************)
(* The specifications.                                                     *)
(***************************************************************************)

IdleTree ==
  /\ devs = <<>>
  /\ first_dev = 0
  /\ dnext = <<>>
  /\ bridges = <<host_bridge>>
  /\ buses = <<>>
  /\ tree_pc = "idle"
  /\ shown = <<>>

IdleCache ==
  /\ dcache = Scanned
  /\ regs = Regs0
  /\ cache_pc = "idle"
  /\ lastcall = [op |-> "none", pos |-> 0, len |-> 0, ret |-> 1, issued |-> FALSE,
             rpos |-> 0, rlen |-> 0, val |-> <<>>, pre |-> Scanned]

IdleMain ==
  /\ main_pc = "idle"
  /\ seen_errors = 0
  /\ exit_status = 0
  /\ scan = Scan0
  /\ NumDevices = 0
  /\ d3 = D30
  /\ hot = Hot0

IdleEep ==
  /\ eep_pc = "idle"
  /\ g_pBuffer = <<>>
  /\ ld = Ld0
  /\ hw = Hw0
  /\ trace = <<>>

IdleMap ==
  /\ bus_info = BusInfo0
  /\ map_pc = "idle"
  /\ probe = [bus |-> 0, dev |-> 0, func |-> 0, func_limit |-> 1,
              multi0 |-> FALSE]
  /\ stack = <<>>
  /\ vlog = <<>>

InitMap ==
  /\ bus_info = BusInfo0
  /\ map_pc = "probe"
  /\ probe = [bus |-> 0, dev |-> 0, func |-> 0, func_limit |-> 1,
              multi0 |-> FALSE]
  /\ stack = <<>>
  /\ vlog = <<>>
  /\ IdleTree
  /\ IdleCache
  /\ IdleMain
  /\ IdleEep

NextMap ==
  \/ do_map_bus_absent
  \/ do_map_bus_filtered
  \/ do_map_bus_die
  \/ do_map_bus_device
  \/ do_map_bus_bridge
  \/ map_bridges_call
  \/ map_bridges_done
  \/ do_map_bridges_examine
  \/ do_map_bridges_return

SpecMap == InitMap /\ [][NextMap]_vars

\* map_the_bus runs to its end: nothing in it waits for anything
SpecMapFair == SpecMap /\ WF_vars(NextMap)

\* after scan_devices and sort_them: the devices are linked in ascending order
InitTree ==
  /\ devs \in SortedRegistries
  /\ first_dev = (IF Len(devs) = 0 THEN 0 ELSE 1)
  /\ dnext = [i \in 1 .. Len(devs) |-> IF i = Len(devs) THEN 0 ELSE i + 1]
  /\ bridges = <<host_bridge>>
  /\ buses = <<>>
  /\ tree_pc = "sorted"
  /\ shown = <<>>
  /\ IdleMap
  /\ IdleCache
  /\ IdleMain
  /\ IdleEep

NextTree ==
  \/ grow_tree
  \/ show_tree
  \/ grow_tree_again

SpecTree == InitTree /\ [][NextTree]_vars

\* after scan_device has read the header of the device
InitCache ==
  /\ dcache = Scanned
  /\ regs = Regs0
  /\ cache_pc = "run"
  /\ lastcall = [op |-> "none", pos |-> 0, len |-> 0, ret |-> 1, issued |-> FALSE,
             rpos |-> 0, rlen |-> 0, val |-> <<>>, pre |-> Scanned]
  /\ IdleMap
  /\ IdleTree
  /\ IdleMain
  /\ IdleEep

NextCache ==
  \/ config_fetch_call
  \/ get_conf

SpecCache == InitCache /\ [][NextCache]_vars

\* the cache of a device that changes its volatile registers
NextCacheVolatile ==
  \/ config_fetch_call
  \/ get_conf
  \/ reg_change

SpecCacheVolatile == InitCache /\ [][NextCacheVolatile]_vars

\* the start of main of the h1a_ee tool
InitMain ==
  /\ main_pc = "start"
  /\ seen_errors = 0
  /\ exit_status = 0
  /\ scan = Scan0
  /\ NumDevices = 0
  /\ d3 = D30
  /\ hot = Hot0
  /\ IdleMap
  /\ IdleTree
  /\ IdleCache
  /\ IdleEep

NextMain ==
  \/ main_version
  \/ main_ProcessCommandLine
  \/ scan_device
  \/ adna_dev_list_init
  \/ adna_d3_to_d0
  \/ main_after_d3
  \/ main_select
  \/ eep_process
  \/ adna_hotreset
  \/ main_return

SpecMain == InitMain /\ [][NextMain]_vars

\* the serial number ProcessCommandLine left in EepOptions.SerialNumber: the
\* zeros of the static structure, or the value of an option -n, 00000000
\* included.  An option -s after -n clears bSerialNumber and keeps the value
Serials == {W0, SerialNumber}

\* eep_process calls eep_init, or EepFile with the options of the command
\* line, a file for bLoadFile and an EEPROM; bIsInit is clear as main set it.
\* With bLoadFile and bSerialNumber EepFile starts with EepromFileLoad, and
\* the buffer register is as the last access left it; else it starts with
\* EepromFileSave
InitEep ==
  /\ \E rb \in BOOLEAN, sn \in Serials :
       \/ /\ \E f \in Files, r \in LoadRoms, b \in {W0, WFF} :
              /\ ld = [Ld0 EXCEPT !.fn = "load", !.bLoadFile = TRUE,
                                  !.bSerialNumber = TRUE,
                                  !.serial = sn, !.file = f]
              /\ hw = [buf |-> b, eeprom |-> r, readback |-> rb]
          /\ eep_pc = "start"
       \/ /\ \E f \in Files, r \in Roms :
              /\ r \in LoadRoms \/ f \in ShortFiles
              /\ ld = [Ld0 EXCEPT !.fn = "save", !.bLoadFile = TRUE,
                                  !.serial = sn, !.file = f]
              /\ hw = [buf |-> WFF, eeprom |-> r, readback |-> rb]
          /\ eep_pc = "read"
       \/ /\ \E r \in Roms, bsn \in BOOLEAN :
              /\ ld = [Ld0 EXCEPT !.fn = "save", !.bSerialNumber = bsn,
                                  !.serial = sn]
              /\ hw = [buf |-> WFF, eeprom |-> r, readback |-> rb]
          /\ eep_pc = "read"
       \/ /\ ld = [Ld0 EXCEPT !.fn = "init", !.serial = sn]
          /\ hw = [Hw0 EXCEPT !.readback = rb]
          /\ eep_pc = "start"
  /\ g_pBuffer = <<>>
  /\ trace = <<>>
  /\ IdleMap
  /\ IdleTree
  /\ IdleCache
  /\ IdleMain

NextEep ==
  \/ EepromFileSave_read
  \/ EepromFileSave_write
  \/ EepromFileSave_scan
  \/ EepromFileLoad_start
  \/ EepromFileLoad_scan
  \/ EepromFileLoad_word
  \/ EepromFileLoad_tail
  \/ eep_init

SpecEep == InitEep /\ [][NextEep]_vars

\* eep_erase is exported (declared next to eep_init) and no function of the
\* program calls it: a call of it on its own, with the buffer register as an
\* earlier access left it
InitErase ==
  /\ \E rb \in BOOLEAN, b \in {W0, WFF, W5A} :
       hw = [Hw0 EXCEPT !.buf = b, !.readback = rb]
  /\ ld = [Ld0 EXCEPT !.fn = "erase"]
  /\ eep_pc = "start"
  /\ g_pBuffer = <<>>
  /\ trace = <<>>
  /\ IdleMap
  /\ IdleTree
  /\ IdleCache
  /\ IdleMain

SpecErase == InitErase /\ [][eep_erase]_vars


=============================================================================
